---- MODULE Spec2Model ----
(***************************************************************************)
(* Model of peek (mchurichi/peek): the Badger-backed log store             *)
(* (package storage), and the websocket fan-out of package server driven   *)
(* by the stdin ingest loop of cmd/peek.                                   *)
(*                                                                         *)
(* Keys are modelled as byte strings (sequences of character codes) so     *)
(* that Badger's byte-wise iteration order, prefix scans and the parsing   *)
(* of the timestamp out of a key are computed the way the code does.       *)
(* Time is counted in ticks; a key prints the tick count in decimal just   *)
(* as the code prints UnixNano().                                          *)
(***************************************************************************)
EXTENDS Integers, Sequences, FiniteSets, TLC

(***************************************************************************)
(* Bounds of the model.                                                    *)
(***************************************************************************)
\* number of Store calls explored (ids are generated fresh per record)
MaxRecords == 3
\* record timestamps and the wall clock range over MinTime..MaxTime ticks;
\* the range straddles a change in the number of decimal digits
MinTime == 8
MaxTime == 10
\* ticks per day (the code subtracts calendar days with AddDate)
DayTicks == 1
\* configured size budget, in bytes, when the size policy is on
\* (Config.RetentionSize); an item of the model takes 11 to 13 bytes
SizeBudget == 20
\* writes between two cleanup requests; stands for cleanupInterval = 1000
CleanupEvery == 2

\* page sizes and offsets explored by the query path
MaxPage == 2
\* connections accepted by the server
MaxClients == 1
\* capacity of a client's send channel; stands for the 100 of the code
SendCap == 2
\* subscribe messages accepted per connection
MaxSubs == 2
\* lines read by the ingest loop
MaxLines == 2
\* the broadcast worker starts no tick after this many publications
MaxPublish == 3
\* Store calls explored when the callers of the store run concurrently
MaxWrites == 4
\* words in a query string handed to the parser
MaxWords == 2
\* top values GetFields lists per field; stands for maxTopValues = 10
MaxTopValues == 2
\* the page of sendInitialResults and the default page of handleQuery
InitialLimit == 100
DefaultLimit == 100

Levels == {"ERROR", "INFO"}
TimeSet == MinTime..MaxTime

(***************************************************************************)
(* Byte strings.                                                           *)
(***************************************************************************)
colon == 58

\* "log:"
logPrefix == <<108, 111, 103, 58>>

\* "index:level:"
levelIndexPrefix == <<105, 110, 100, 101, 120, 58, 108, 101, 118, 101, 108, 58>>

\* fmt's %d of a non-negative integer: decimal digits, no leading zeros
RECURSIVE FormatInt(_)
FormatInt(n) ==
  IF n < 10 THEN <<48 + n>> ELSE FormatInt(n \div 10) \o <<48 + (n % 10)>>

\* fmt.Sscanf(s, "%d", &ts): the leading run of digits, 0 when there is none
RECURSIVE ScanDigits(_, _)
ScanDigits(s, acc) ==
  IF s = <<>> \/ Head(s) \notin 48..57 THEN acc
  ELSE ScanDigits(Tail(s), acc * 10 + (Head(s) - 48))

Sscanf(s) == ScanDigits(s, 0)

\* strings.SplitN(s, ":", 2)[0]
RECURSIVE SplitFirst(_)
SplitFirst(s) ==
  IF s = <<>> \/ Head(s) = colon THEN <<>>
  ELSE <<Head(s)>> \o SplitFirst(Tail(s))

\* the id of a record: generateID() renders random bytes in lowercase hex;
\* the model's ids 1..6 print as the hex digits a..f
IdBytes(id) == <<96 + id>>

LevelBytes(level) ==
  CASE level = "ERROR" -> <<69, 82, 82, 79, 82>>
    [] level = "INFO"  -> <<73, 78, 70, 79>>
    [] level = "DB:ERR" -> <<68, 66, 58, 69, 82, 82>>
    [] OTHER           -> <<>>

HasPrefix(k, p) ==
  /\ Len(k) >= Len(p)
  /\ \A i \in 1..Len(p) : k[i] = p[i]

\* bytes.Compare(a, b) < 0, the order of Badger's iterator
BytesLess(a, b) ==
  \E i \in 1..Len(b) :
    /\ \A j \in 1..(i - 1) : j <= Len(a) /\ a[j] = b[j]
    /\ (i > Len(a) \/ a[i] < b[i])

\* log:{timestamp}:{id}
PrimaryKey(e) == logPrefix \o FormatInt(e.ts) \o <<colon>> \o IdBytes(e.id)

\* index:level:{LEVEL}:{timestamp}:{id}
LevelKey(e) ==
  levelIndexPrefix \o LevelBytes(e.level) \o <<colon>>
    \o FormatInt(e.ts) \o <<colon>> \o IdBytes(e.id)

(***************************************************************************)
(* State.                                                                  *)
(***************************************************************************)
VARIABLES
  db,            \* the Badger key space: key bytes -> value
  writeCount,    \* BadgerStorage.writeCount
  cleanupChan,   \* number of requests buffered in BadgerStorage.cleanupChan
  retentionSize, \* BadgerStorage.retentionSize (0 = off)
  retentionDays, \* BadgerStorage.retentionDays (0 = off)
  now,           \* the wall clock
  nextId,        \* ids handed out so far
  startTime,     \* the start of Server.defaultFilter; 0 when it is nil
  clients,       \* Server.clients
  conns,         \* connections accepted so far
  filter,        \* client.filter
  timeRange,     \* client.timeRange
  send,          \* the items buffered in client.send
  done,          \* client.done is closed
  readPumps,     \* where each connection's readPump is
  writePumps,    \* where each connection's writePump is
  initial,       \* the sendInitialResults goroutines that are running
  pc,            \* where the ingest loop of runCollectMode is
  entry,         \* the entry the ingest loop has stored and not yet published
  lastCheck,     \* lastCheck of the broadcast worker
  tickNow,       \* now of the broadcast worker's current tick
  entries,       \* entries of the broadcast worker's current tick
  worker,        \* where the broadcast worker is
  published,     \* history: number of BroadcastLog calls so far
  subscribed,    \* history: number of subscriptions each connection installed
  subscription,  \* history: which of them is behind client.filter (0: none)
  resultsQueued, \* history: subscriptions whose results message was enqueued
  delivered,     \* history: publish number of the last record written out
  room,          \* history: items drained and not yet refilled by records
  roomAll,       \* history: items drained and not yet refilled by any message
  mu,            \* BadgerStorage.mu: the task holding the lock, if any
  tasks,         \* where each goroutine that calls into the store is
  listening,     \* the HTTP listener of Server.Start accepts connections
  closed,        \* BadgerStorage.Close has been called
  badLines,      \* history: lines the ingest loop has skipped
  smu,           \* Server.mu: "none", or "r" while BroadcastLog holds RLock
  last           \* history: the last operation, its inputs and its results

storeVars == <<db, writeCount, cleanupChan, retentionSize, retentionDays,
               now, nextId>>

clientVars == <<clients, conns, filter, timeRange, send, done, readPumps,
                writePumps, initial>>

ingestVars == <<pc, entry>>

workerVars == <<lastCheck, tickNow, entries, worker>>

historyVars == <<published, subscribed, subscription, resultsQueued,
                 delivered, room, roomAll>>

serverVars == <<startTime, clientVars, ingestVars, workerVars, historyVars>>

taskVars == <<mu, tasks>>

mainVars == <<listening, closed, badLines, smu>>

vars == <<storeVars, serverVars, taskVars, mainVars, last>>

(***************************************************************************)
(* Badger transactions.                                                    *)
(***************************************************************************)
\* txn.Set
Set(d, k, v) == [x \in (DOMAIN d) \cup {k} |-> IF x = k THEN v ELSE d[x]]

\* txn.Delete of a batch of keys (deleting an absent key is a no-op)
Delete(d, ks) == [x \in (DOMAIN d) \ ks |-> d[x]]

\* it.Seek(prefix); it.ValidForPrefix(prefix); it.Next(): the keys under a
\* prefix in byte order
RECURSIVE SortKeys(_)
SortKeys(K) ==
  IF K = {} THEN <<>>
  ELSE LET m == CHOOSE k \in K : \A o \in K \ {k} : BytesLess(k, o)
       IN <<m>> \o SortKeys(K \ {m})

Iterate(d, prefix) == SortKeys({k \in DOMAIN d : HasPrefix(k, prefix)})

\* the primary entries in iteration order (values are stored as the JSON of
\* the entry, which keeps id, timestamp and level)
ScanSeq(d) ==
  LET ks == Iterate(d, logPrefix) IN [i \in 1..Len(ks) |-> d[ks[i]]]

LogKeys(d) == {k \in DOMAIN d : HasPrefix(k, logPrefix)}

IndexKeys(d) == {k \in DOMAIN d : HasPrefix(k, levelIndexPrefix)}

(***************************************************************************)
(* Filters.                                                                *)
(***************************************************************************)
AllFilter == [k |-> "All"]

LevelFilter(level) == [k |-> "Level", level |-> level]

\* a zero time.Time is written 0; every real timestamp is positive
IsZero(t) == t = 0

TimestampRangeFilter(start, end) == [k |-> "TsRange", start |-> start, end |-> end]

AndFilter(left, right) == [k |-> "And", left |-> left, right |-> right]

\* a FieldFilter on the level field, not exact: the entry's level contains
\* the value, letter case aside (on the levels of the model: equals it)
FieldFilter(value) == [k |-> "Field", value |-> value]

RECURSIVE Match(_, _)
Match(f, e) ==
  CASE f.k = "All"     -> TRUE
    [] f.k = "Level"   -> e.level = f.level
    [] f.k = "Field"   -> e.level = f.value
    [] f.k = "TsRange" -> /\ ~(~IsZero(f.start) /\ e.ts < f.start)
                          /\ ~(~IsZero(f.end) /\ e.ts > f.end)
    [] f.k = "And"     -> Match(f.left, e) /\ Match(f.right, e)

(***************************************************************************)
(* Store operations, as functions of the key space.                        *)
(***************************************************************************)
\* the write transaction of Store: primary key and level index key together
StoreTxn(d, e) == Set(Set(d, PrimaryKey(e), e), LevelKey(e), e.id)

\* the iteration of Query: total counts every match, the first offset
\* matches are skipped, at most limit matches are kept
RECURSIVE QueryLoop(_, _, _, _, _)
QueryLoop(es, f, limit, offset, acc) ==
  IF es = <<>> THEN acc
  ELSE LET e == Head(es)
           rest == Tail(es)
       IN IF ~Match(f, e) THEN QueryLoop(rest, f, limit, offset, acc)
          ELSE IF acc.skipped < offset
               THEN QueryLoop(rest, f, limit, offset,
                      [acc EXCEPT !.total = @ + 1, !.skipped = @ + 1])
          ELSE IF Len(acc.entries) < limit
               THEN QueryLoop(rest, f, limit, offset,
                      [acc EXCEPT !.total = @ + 1, !.entries = Append(@, e)])
          ELSE QueryLoop(rest, f, limit, offset,
                      [acc EXCEPT !.total = @ + 1])

\* Query whose total leaves out the matches skipped by offset
QueryTotalAfterOffset(d, f, limit, offset) ==
  LET r == QueryLoop(ScanSeq(d), f, limit, offset,
                     [entries |-> <<>>, total |-> 0, skipped |-> 0])
  IN [r EXCEPT !.total = r.total - r.skipped]

Query(d, f, limit, offset) ==
  QueryLoop(ScanSeq(d), f, limit, offset,
            [entries |-> <<>>, total |-> 0, skipped |-> 0])

\* the timestamp deleteEntriesOlderThan and DeleteOlderThan read off a key
KeyTimestamp(k) == Sscanf(SplitFirst(SubSeq(k, Len(logPrefix) + 1, Len(k))))

\* item.EstimatedSize(): the bytes of the key and of the value; of the value
\* only the level text varies in the model
EstimatedSize(d, k) == Len(k) + Len(LevelBytes(d[k].level))

\* the collection loop of deleteOldestEntries: keys in iteration order are
\* taken, with their level index keys, until their sizes add up to targetBytes
RECURSIVE CollectOldest(_, _, _, _)
CollectOldest(d, ks, targetBytes, acc) ==
  IF ks = <<>> THEN acc
  ELSE LET k == Head(ks)
           acc2 == [keysToDelete      |-> acc.keysToDelete \cup {k},
                    indexKeysToDelete |-> acc.indexKeysToDelete \cup {LevelKey(d[k])},
                    deletedSize       |-> acc.deletedSize + EstimatedSize(d, k)]
       IN IF acc2.deletedSize >= targetBytes THEN acc2
          ELSE CollectOldest(d, Tail(ks), targetBytes, acc2)

OldestBatch(d, targetBytes) ==
  CollectOldest(d, Iterate(d, logPrefix), targetBytes,
                [keysToDelete |-> {}, indexKeysToDelete |-> {}, deletedSize |-> 0])

deleteOldestEntries(d, targetBytes) ==
  LET b == OldestBatch(d, targetBytes)
  IN Delete(d, b.keysToDelete \cup b.indexKeysToDelete)

\* OlderKeys with the comparison ts <= cutoffNano
OlderKeysInclusive(d, cutoffNano) == {k \in LogKeys(d) : KeyTimestamp(k) <= cutoffNano}

\* keys whose printed timestamp is below the cutoff
OlderKeys(d, cutoffNano) == {k \in LogKeys(d) : KeyTimestamp(k) < cutoffNano}

\* deleteEntriesOlderThan that leaves the level index keys behind
deleteEntriesOlderThanKeepIndex(d, cutoffNano) == Delete(d, OlderKeys(d, cutoffNano))

deleteEntriesOlderThan(d, cutoffNano) ==
  LET keysToDelete == OlderKeys(d, cutoffNano)
      indexKeysToDelete == {LevelKey(d[k]) : k \in keysToDelete}
  IN Delete(d, keysToDelete \cup indexKeysToDelete)

\* SizeTarget without the 20% on top
SizeTargetNoBuffer(currentSize, budget) == currentSize - budget

\* int(float64(currentSize - retentionSize) * 1.2)
SizeTarget(currentSize, budget) == ((currentSize - budget) * 12) \div 10

\* time.Now().AddDate(0, 0, -days)
Cutoff(t, days) == t - days * DayTicks

\* enforceRetention: the size policy when the budget is exceeded, otherwise
\* the time policy; currentSize is lsm + vlog as db.Size() reports it
enforceRetention(d, budget, days, currentSize, t) ==
  IF budget > 0 /\ currentSize > budget
  THEN deleteOldestEntries(d, SizeTarget(currentSize, budget))
  ELSE IF days > 0
  THEN deleteEntriesOlderThan(d, Cutoff(t, days))
  ELSE d

DeleteAllTxn(d) == Delete(d, LogKeys(d) \cup IndexKeys(d))

DeleteByLevelTxn(d, level) ==
  LET keysToDelete == {k \in LogKeys(d) : d[k].level = level}
      indexKeysToDelete == {LevelKey(d[k]) : k \in keysToDelete}
  IN Delete(d, keysToDelete \cup indexKeysToDelete)

\* DeleteOlderThanTxn with the comparison ts <= cutoffNano
DeleteOlderThanTxnInclusive(d, cutoffNano) ==
  LET keysToDelete == OlderKeysInclusive(d, cutoffNano)
      indexKeysToDelete == {LevelKey(d[k]) : k \in keysToDelete}
  IN Delete(d, keysToDelete \cup indexKeysToDelete)

DeleteOlderThanTxn(d, cutoffNano) ==
  LET keysToDelete == OlderKeys(d, cutoffNano)
      indexKeysToDelete == {LevelKey(d[k]) : k \in keysToDelete}
  IN Delete(d, keysToDelete \cup indexKeysToDelete)

(***************************************************************************)
(* The query strings of the model and what query.Parse makes of them.      *)
(***************************************************************************)
QueryStrings == {"*", "level:ERROR", "("}

ParseError == [k |-> "Error"]

Parse(queryStr) ==
  CASE queryStr = "*"           -> AllFilter
    [] queryStr = "level:ERROR" -> FieldFilter("ERROR")
    [] OTHER                    -> ParseError

(***************************************************************************)
(* The time-range query.  The seek bounds are byte strings; the iterator   *)
(* starts at the first key at or after the seek key and stops at the first *)
(* key at or after the stop key.                                           *)
(***************************************************************************)
\* a nil *TimeRange; a TimeRange is only built with a bound that is set
NilRange == [start |-> 0, end |-> 0]

SeekKey(tr) ==
  IF IsZero(tr.start) THEN logPrefix
  ELSE logPrefix \o FormatInt(tr.start) \o <<colon>>

AtOrAfter(k, bound) == k = bound \/ BytesLess(bound, k)

RECURSIVE TakeUntil(_, _)
TakeUntil(ks, stop) ==
  IF ks = <<>> \/ AtOrAfter(Head(ks), stop) THEN <<>>
  ELSE <<Head(ks)>> \o TakeUntil(Tail(ks), stop)

RangeKeys(d, tr) ==
  LET from == SelectSeq(Iterate(d, logPrefix),
                        LAMBDA k : AtOrAfter(k, SeekKey(tr)))
  IN IF IsZero(tr.end) THEN from
     ELSE TakeUntil(from, logPrefix \o FormatInt(tr.end + 1) \o <<colon>>)

QueryWithTimeRange(d, f, tr, limit, offset) ==
  IF tr = NilRange THEN Query(d, f, limit, offset)
  ELSE LET ks == RangeKeys(d, tr)
       IN QueryLoop([i \in 1..Len(ks) |-> d[ks[i]]], f, limit, offset,
                    [entries |-> <<>>, total |-> 0, skipped |-> 0])

(***************************************************************************)
(* The server: filters of a request, the items of client.send, fan-out.    *)
(***************************************************************************)
ClientIds == 1..MaxClients

\* a nil query.Filter
NilFilter == [k |-> "Nil"]

\* the time ranges a request can carry: none, or start and end
RangeInputs == {NilRange, [start |-> MinTime, end |-> MaxTime - 1]}

\* Server.defaultFilter: nil unless a start time was given
DefaultFilter(start) ==
  IF IsZero(start) THEN NilFilter ELSE TimestampRangeFilter(start, 0)

\* the filter handleQuery and readPump build from the parsed query, the
\* default filter and the time range
RequestFilter(q, default, tr) ==
  LET f == IF default # NilFilter THEN AndFilter(default, q) ELSE q
  IN IF ~IsZero(tr.start) \/ ~IsZero(tr.end)
     THEN AndFilter(f, TimestampRangeFilter(tr.start, tr.end))
     ELSE f

\* a log entry on client.send; seq is the number of the BroadcastLog call
LogItem(e, seq) == [type |-> "log", entry |-> e, seq |-> seq]

\* the results message of sendInitialResults
ResultsItem(res) == [type |-> "results", logs |-> res.entries, total |-> res.total]

\* c.filter == nil || c.filter.Match(entry)
Selects(f, e) == f = NilFilter \/ Match(f, e)

\* Offer into a buffer without a capacity
OfferUnbounded(q, item) == Append(q, item)

\* select { case c.send <- entry: default: }
Offer(q, item) == IF Len(q) < SendCap THEN Append(q, item) ELSE q

\* receive that takes the newest item of the buffer
ReceiveNewest(q) == [item |-> q[Len(q)], rest |-> SubSeq(q, 1, Len(q) - 1)]

\* msg := <-c.send
Receive(q) == [item |-> Head(q), rest |-> Tail(q)]

(***************************************************************************)
(* The program as a state machine.  Each action is one call of an          *)
(* operation or one step of a goroutine, and records in `last` what it was *)
(* called with, what it found and what it returned.                        *)
(***************************************************************************)
\* configurations with at least one retention policy switched on
Configs ==
  {c \in [RetentionSize : {0, SizeBudget}, RetentionDays : {0, 1}] :
     c.RetentionSize > 0 \/ c.RetentionDays > 0}

QueryFilters ==
  {AllFilter, LevelFilter("ERROR"), TimestampRangeFilter(MinTime + 1, 0)}

EmptyDB == [x \in {} |-> 0]

NoEntry == [id |-> 0, ts |-> 0, level |-> ""]

\* what db.Size() can report (lsm + vlog): Badger refreshes it in the
\* background, so it is an input of the sweep
DiskSizes ==
  {0, SizeBudget, SizeBudget + 1, SizeBudget + 10, 2 * SizeBudget, 2 * SizeBudget + 10}

\* the goroutines that call Store concurrently
Writers == {"store1", "store2"}

\* the cleanup worker and a caller of DeleteAll, DeleteByLevel or
\* DeleteOlderThan
Deleters == {"cleanup", "delete"}

\* the goroutines of the store's callers, with a caller of Scan
Tasks == Writers \cup Deleters \cup {"scan"}

\* a sync.RWMutex nobody holds
Unlocked == "none"

Idle == [pc |-> "idle"]

\* NewBadgerStorage on an empty directory
StoreInit ==
  /\ db = EmptyDB
  /\ writeCount = 0
  /\ cleanupChan = 0
  /\ mu = Unlocked
  /\ tasks = [t \in Tasks |-> Idle]
  /\ \E cfg \in Configs :
       /\ retentionSize = cfg.RetentionSize
       /\ retentionDays = cfg.RetentionDays
  /\ nextId = 1
  /\ last = [op |-> "New"]

\* no connection has been accepted, nothing has been published
NoClients ==
  /\ clients = {}
  /\ conns = {}
  /\ filter = [c \in ClientIds |-> NilFilter]
  /\ timeRange = [c \in ClientIds |-> NilRange]
  /\ send = [c \in ClientIds |-> <<>>]
  /\ done = [c \in ClientIds |-> FALSE]
  /\ readPumps = [c \in ClientIds |-> "none"]
  /\ writePumps = [c \in ClientIds |-> "none"]
  /\ initial = {}
  /\ entry = NoEntry
  /\ tickNow = 0
  /\ entries = <<>>
  /\ published = 0
  /\ subscribed = [c \in ClientIds |-> 0]
  /\ subscription = [c \in ClientIds |-> 0]
  /\ resultsQueued = [c \in ClientIds |-> {}]
  /\ delivered = [c \in ClientIds |-> 0]
  /\ room = [c \in ClientIds |-> 0]
  /\ roomAll = [c \in ClientIds |-> 0]

\* the store used on its own (the db commands, the library)
StoreOnly ==
  /\ now = MinTime
  /\ startTime = 0
  /\ NoClients
  /\ pc = "off"
  /\ worker = "off"
  /\ lastCheck = 0
  /\ listening = FALSE
  /\ closed = FALSE
  /\ badLines = 0
  /\ smu = Unlocked

\* runCollectMode up to the ingest loop: NewServer with the start time of
\* fresh mode or with nil (--all), StartBroadcastWorker
NewServer ==
  /\ now = MinTime + 1
  /\ startTime \in {0, now}
  /\ NoClients
  /\ pc = "read"
  /\ worker = "wait"
  /\ lastCheck = now
  /\ listening = TRUE
  /\ closed = FALSE
  /\ badLines = 0
  /\ smu = Unlocked

\* Trigger on a channel without a capacity limit
TriggerUnbounded(ch) == ch + 1

\* select { case s.cleanupChan <- struct{}{}: default: } on a channel of
\* capacity 1
Trigger(ch) == IF ch < 1 THEN ch + 1 ELSE ch

\* Store(entry): count the write, write both keys in one transaction, and on
\* every CleanupEvery-th write offer a request to cleanupChan (capacity 1)
\* without blocking
StoreEntry(e) ==
  LET shouldCleanup == (writeCount + 1) % CleanupEvery = 0
  IN /\ writeCount' = writeCount + 1
     /\ db' = StoreTxn(db, e)
     /\ cleanupChan' = IF shouldCleanup THEN Trigger(cleanupChan) ELSE cleanupChan
     /\ nextId' = nextId + 1
     /\ last' = [op |-> "Store", entry |-> e]
     /\ UNCHANGED <<retentionSize, retentionDays, now>>

Store ==
  \E ts \in TimeSet, level \in Levels :
    /\ nextId <= MaxRecords
    /\ StoreEntry([id |-> nextId, ts |-> ts, level |-> level])
    /\ UNCHANGED <<serverVars, taskVars, mainVars>>

\* the levels of entries parsed from JSON lines: the line's level in upper
\* case, whatever it is
JSONLevels == Levels \cup {"DB:ERR"}

\* Store of an entry parsed from a JSON line
StoreJSON ==
  \E ts \in TimeSet, level \in JSONLevels :
    /\ nextId <= MaxRecords
    /\ StoreEntry([id |-> nextId, ts |-> ts, level |-> level])
    /\ UNCHANGED <<serverVars, taskVars, mainVars>>

\* the level GetStats reads out of a by-level key:
\* strings.SplitN(key[len(levelIndexPrefix):], ":", 2)[0]
KeyLevel(k) == SplitFirst(SubSeq(k, Len(levelIndexPrefix) + 1, Len(k)))

\* GetStats, in one read transaction: TotalLogs counts the primary keys,
\* Levels counts the by-level keys under the level read out of each key
GetStats(d) ==
  [totalLogs |-> Cardinality(LogKeys(d)),
   levels |-> [l \in {KeyLevel(k) : k \in IndexKeys(d)} |->
                 Cardinality({k \in IndexKeys(d) : KeyLevel(k) = l})]]

GetStatsCall ==
  /\ last' = [op |-> "GetStats", stats |-> GetStats(db)]
  /\ UNCHANGED <<storeVars, serverVars, taskVars, mainVars>>

\* the inner loop of topN's insertion sort: the item at j moves left past
\* every item with a smaller count
RECURSIVE MoveLeft(_, _)
MoveLeft(items, j) ==
  IF j > 1 /\ items[j].count > items[j - 1].count
  THEN MoveLeft([items EXCEPT ![j] = items[j - 1], ![j - 1] = items[j]], j - 1)
  ELSE items

RECURSIVE InsertionSort(_, _)
InsertionSort(items, i) ==
  IF i > Len(items) THEN items
  ELSE InsertionSort(MoveLeft(items, i), i + 1)

\* the orders in which a range over a Go map can yield its keys: the
\* language leaves the order open, so every permutation
Orders(keys) ==
  {o \in [1..Cardinality(keys) -> keys] : \A i, j \in DOMAIN o : o[i] = o[j] => i = j}

\* topN(counts, n), the range over counts yielding the keys in order
topN(counts, n, order) ==
  LET items == InsertionSort([i \in DOMAIN order |->
                                [key |-> order[i], count |-> counts[order[i]]]], 2)
  IN [i \in 1..(IF n < Len(items) THEN n ELSE Len(items)) |-> items[i].key]

\* the entries GetFields looks at, in the order of its iteration
FieldEntries(d, start, end) ==
  SelectSeq(ScanSeq(d), LAMBDA e : /\ ~(~IsZero(start) /\ e.ts < start)
                                   /\ ~(~IsZero(end) /\ e.ts > end))

\* fieldValues["level"] of GetFields: level -> number of entries
LevelCounts(es) ==
  [l \in {es[i].level : i \in DOMAIN es} |->
     Cardinality({i \in DOMAIN es : es[i].level = l})]

\* GetFields(start, end): the top values of the built-in fields; the entries
\* of the model carry no other field
GetFields(d, start, end, order) ==
  [level |-> topN(LevelCounts(FieldEntries(d, start, end)), MaxTopValues, order),
   message |-> <<>>,
   timestamp |-> <<>>]

GetFieldsCall ==
  \E tr \in RangeInputs :
    \E order \in Orders(DOMAIN LevelCounts(FieldEntries(db, tr.start, tr.end))) :
      /\ last' = [op |-> "GetFields", tr |-> tr,
                  fields |-> GetFields(db, tr.start, tr.end, order)]
      /\ UNCHANGED <<storeVars, serverVars, taskVars, mainVars>>

\* cleanupWorker: take a request off cleanupChan and run enforceRetention
cleanupWorker ==
  /\ cleanupChan > 0
  /\ cleanupChan' = cleanupChan - 1
  /\ \E currentSize \in DiskSizes :
       /\ db' = enforceRetention(db, retentionSize, retentionDays, currentSize, now)
       /\ last' = [op |-> "Sweep", pre |-> db, currentSize |-> currentSize,
                   second |-> last.op = "Sweep"]
  /\ UNCHANGED <<writeCount, retentionSize, retentionDays, now, nextId>>
  /\ UNCHANGED <<serverVars, taskVars, mainVars>>

\* the store is closed and NewBadgerStorage opens the same directory again:
\* the write counter and the request channel start over, and the initial
\* enforceRetention runs before the cleanup worker is started
NewBadgerStorage ==
  /\ writeCount' = 0
  /\ cleanupChan' = 0
  /\ \E currentSize \in DiskSizes :
       /\ db' = enforceRetention(db, retentionSize, retentionDays, currentSize, now)
       /\ last' = [op |-> "Sweep", pre |-> db, currentSize |-> currentSize,
                   second |-> last.op = "Sweep"]
  /\ UNCHANGED <<retentionSize, retentionDays, now, nextId>>
  /\ UNCHANGED <<serverVars, taskVars, mainVars>>

\* DeleteAll() returns the number of primary keys it collected
DeleteAll ==
  /\ db' = DeleteAllTxn(db)
  /\ last' = [op |-> "DeleteAll", pre |-> db, count |-> Cardinality(LogKeys(db))]
  /\ UNCHANGED <<writeCount, cleanupChan, retentionSize, retentionDays, now, nextId>>
  /\ UNCHANGED <<serverVars, taskVars, mainVars>>

DeleteByLevel ==
  \E level \in Levels :
    /\ db' = DeleteByLevelTxn(db, level)
    /\ last' = [op |-> "DeleteByLevel", pre |-> db, level |-> level,
                count |-> Cardinality({k \in LogKeys(db) : db[k].level = level})]
    /\ UNCHANGED <<writeCount, cleanupChan, retentionSize, retentionDays, now, nextId>>
    /\ UNCHANGED <<serverVars, taskVars, mainVars>>

DeleteOlderThan ==
  \E cutoff \in TimeSet :
    /\ db' = DeleteOlderThanTxn(db, cutoff)
    /\ last' = [op |-> "DeleteOlderThan", pre |-> db, cutoff |-> cutoff,
                count |-> Cardinality(OlderKeys(db, cutoff))]
    /\ UNCHANGED <<writeCount, cleanupChan, retentionSize, retentionDays, now, nextId>>
    /\ UNCHANGED <<serverVars, taskVars, mainVars>>

\* Query(filter, limit, offset)
QueryCall ==
  \E f \in QueryFilters, limit \in 0..MaxPage, offset \in 0..MaxPage :
    /\ last' = [op |-> "Query", filter |-> f, limit |-> limit,
                offset |-> offset, res |-> Query(db, f, limit, offset)]
    /\ UNCHANGED <<storeVars, taskVars, mainVars>>
    /\ UNCHANGED <<serverVars, taskVars, mainVars>>

\* the wall clock advances
Tick ==
  /\ now < MaxTime
  /\ now' = now + 1
  /\ last' = [op |-> "Tick"]
  /\ UNCHANGED <<db, writeCount, cleanupChan, retentionSize, retentionDays, nextId>>
  /\ UNCHANGED <<serverVars, taskVars, mainVars>>

(***************************************************************************)
(* The store under concurrent callers.  Each call is cut where the code    *)
(* takes or releases BadgerStorage.mu and where a Badger transaction       *)
(* commits.  Only exclusive holders of mu are among the tasks (Query and   *)
(* GetStats, which take RLock, are not).                                   *)
(***************************************************************************)
\* what an action leaves in `last` when its outcome is all in the state
Step == [op |-> "Step"]

\* Store, up to s.mu.Unlock(): under the lock the write is counted and
\* shouldCleanup is computed; the lock is released before the transaction
StoreCount(t) ==
  \E ts \in {now}, level \in Levels :
    /\ tasks[t].pc = "idle"
    /\ mu = Unlocked
    /\ nextId <= MaxWrites
    /\ writeCount' = writeCount + 1
    /\ nextId' = nextId + 1
    /\ tasks' = [tasks EXCEPT ![t] =
                   [pc |-> "update",
                    entry |-> [id |-> nextId, ts |-> ts, level |-> level],
                    shouldCleanup |-> (writeCount + 1) % CleanupEvery = 0]]
    /\ last' = Step
    /\ UNCHANGED <<db, cleanupChan, retentionSize, retentionDays, now, mu>>
    /\ UNCHANGED <<serverVars, mainVars>>

\* Store: the write transaction commits
StoreUpdate(t) ==
  /\ tasks[t].pc = "update"
  /\ db' = StoreTxn(db, tasks[t].entry)
  /\ tasks' = [tasks EXCEPT ![t] =
                 IF tasks[t].shouldCleanup THEN [pc |-> "trigger"] ELSE Idle]
  /\ last' = [op |-> "StoreUpdate", task |-> t, holder |-> mu]
  /\ UNCHANGED <<writeCount, cleanupChan, retentionSize, retentionDays, now, nextId, mu>>
  /\ UNCHANGED <<serverVars, mainVars>>

\* Store that returns after its commit without the cleanup request
StoreTriggerSkips(t) ==
  /\ tasks[t].pc = "trigger"
  /\ tasks' = [tasks EXCEPT ![t] = Idle]
  /\ last' = [op |-> "StoreTrigger", task |-> t, pending |-> cleanupChan]
  /\ UNCHANGED <<db, writeCount, cleanupChan, retentionSize, retentionDays, now, nextId, mu>>
  /\ UNCHANGED <<serverVars, mainVars>>

\* Store: the cleanup request is offered to cleanupChan
StoreTrigger(t) ==
  /\ tasks[t].pc = "trigger"
  /\ cleanupChan' = Trigger(cleanupChan)
  /\ tasks' = [tasks EXCEPT ![t] = Idle]
  /\ last' = [op |-> "StoreTrigger", task |-> t, pending |-> cleanupChan]
  /\ UNCHANGED <<db, writeCount, retentionSize, retentionDays, now, nextId, mu>>
  /\ UNCHANGED <<serverVars, mainVars>>

\* cleanupWorker receives a request and calls enforceRetention
WorkerReceive ==
  /\ tasks["cleanup"].pc = "idle"
  /\ cleanupChan > 0
  /\ cleanupChan' = cleanupChan - 1
  /\ tasks' = [tasks EXCEPT !["cleanup"] = [pc |-> "enforce"]]
  /\ last' = Step
  /\ UNCHANGED <<db, writeCount, retentionSize, retentionDays, now, nextId, mu>>
  /\ UNCHANGED <<serverVars, mainVars>>

\* the keys the View transaction of a deletion collects: those its delete
\* transaction removes when nothing is written in between
Collected(d, after) == (DOMAIN d) \ (DOMAIN after)

\* enforceRetention takes the lock, reads the size and the clock and, when a
\* policy applies, collects the keys to delete; otherwise it returns
SweepCollect ==
  \E currentSize \in DiskSizes :
    /\ tasks["cleanup"].pc = "enforce"
    /\ mu = Unlocked
    /\ IF (retentionSize > 0 /\ currentSize > retentionSize) \/ retentionDays > 0
       THEN /\ mu' = "cleanup"
            /\ tasks' = [tasks EXCEPT !["cleanup"] =
                 [pc |-> "delete",
                  keys |-> Collected(db, enforceRetention(db, retentionSize,
                                           retentionDays, currentSize, now))]]
       ELSE /\ mu' = Unlocked
            /\ tasks' = [tasks EXCEPT !["cleanup"] = Idle]
    /\ last' = Step
    /\ UNCHANGED <<db, writeCount, cleanupChan, retentionSize, retentionDays, now, nextId>>
    /\ UNCHANGED <<serverVars, mainVars>>

\* DeleteAll, DeleteByLevel or DeleteOlderThan takes the lock and collects
\* the keys to delete
DeleteCollect ==
  \E after \in {DeleteAllTxn(db)}
                 \cup {DeleteByLevelTxn(db, level) : level \in Levels}
                 \cup {DeleteOlderThanTxn(db, MaxTime)} :
    /\ tasks["delete"].pc = "idle"
    /\ mu = Unlocked
    /\ mu' = "delete"
    /\ tasks' = [tasks EXCEPT !["delete"] =
                   [pc |-> "delete", keys |-> Collected(db, after)]]
    /\ last' = Step
    /\ UNCHANGED <<db, writeCount, cleanupChan, retentionSize, retentionDays, now, nextId>>
    /\ UNCHANGED <<serverVars, mainVars>>

\* the delete transaction of a deletion commits and the lock is released
DeleteUpdate(t) ==
  /\ tasks[t].pc = "delete"
  /\ db' = Delete(db, tasks[t].keys)
  /\ mu' = Unlocked
  /\ tasks' = [tasks EXCEPT ![t] = Idle]
  /\ last' = Step
  /\ UNCHANGED <<writeCount, cleanupChan, retentionSize, retentionDays, now, nextId>>
  /\ UNCHANGED <<serverVars, mainVars>>

\* Scan that takes the lock before it opens its transaction
ScanViewLocked ==
  /\ tasks["scan"].pc = "idle"
  /\ mu = Unlocked
  /\ mu' = "scan"
  /\ tasks' = [tasks EXCEPT !["scan"] = [pc |-> "callback", rest |-> ScanSeq(db)]]
  /\ last' = Step
  /\ UNCHANGED <<db, writeCount, cleanupChan, retentionSize, retentionDays, now, nextId>>
  /\ UNCHANGED <<serverVars, mainVars>>

\* Scan opens its View transaction, a snapshot of the key space; it takes no
\* lock
ScanView ==
  /\ tasks["scan"].pc = "idle"
  /\ tasks' = [tasks EXCEPT !["scan"] = [pc |-> "callback", rest |-> ScanSeq(db)]]
  /\ last' = Step
  /\ UNCHANGED <<db, writeCount, cleanupChan, retentionSize, retentionDays, now, nextId, mu>>
  /\ UNCHANGED <<serverVars, mainVars>>

\* Scan hands the next entry to a callback that does not touch the store
ScanCallback ==
  /\ tasks["scan"].pc = "callback"
  /\ tasks["scan"].rest # <<>>
  /\ tasks' = [tasks EXCEPT !["scan"].rest = Tail(@)]
  /\ last' = Step
  /\ UNCHANGED <<db, writeCount, cleanupChan, retentionSize, retentionDays, now, nextId, mu>>
  /\ UNCHANGED <<serverVars, mainVars>>

\* Scan hands the next entry to a callback that calls Store
ScanCallbackStore ==
  \E level \in Levels :
    /\ tasks["scan"].pc = "callback"
    /\ tasks["scan"].rest # <<>>
    /\ mu = Unlocked
    /\ nextId <= MaxWrites
    /\ StoreEntry([id |-> nextId, ts |-> now, level |-> level])
    /\ tasks' = [tasks EXCEPT !["scan"].rest = Tail(@)]
    /\ UNCHANGED mu
    /\ UNCHANGED <<serverVars, mainVars>>

\* Scan has visited every entry of its snapshot and returns
ScanReturn ==
  /\ tasks["scan"].pc = "callback"
  /\ tasks["scan"].rest = <<>>
  /\ tasks' = [tasks EXCEPT !["scan"] = Idle]
  /\ last' = Step
  /\ UNCHANGED <<db, writeCount, cleanupChan, retentionSize, retentionDays, now, nextId, mu>>
  /\ UNCHANGED <<serverVars, mainVars>>

(***************************************************************************)
(* The server.                                                             *)
(***************************************************************************)
\* BroadcastLog that sends with a plain, waiting send
BroadcastLogBlocking(e) ==
  LET to == {c \in clients : Selects(filter[c], e)}
  IN /\ \A c \in to : Len(send[c]) < SendCap
     /\ send' = [c \in ClientIds |->
                   IF c \in to THEN Append(send[c], LogItem(e, published + 1))
                   ELSE send[c]]
     /\ published' = published + 1
     /\ room' = [c \in ClientIds |->
                   IF c \in to /\ room[c] > 0 THEN room[c] - 1 ELSE room[c]]
     /\ roomAll' = [c \in ClientIds |->
                      IF c \in to /\ roomAll[c] > 0 THEN roomAll[c] - 1 ELSE roomAll[c]]
     /\ last' = [op |-> "BroadcastLog", entry |-> e, pre |-> send,
                 room |-> room, roomAll |-> roomAll]

\* BroadcastLog(entry): under the read lock, offer the entry to every
\* registered client whose filter is nil or matches
BroadcastLog(e) ==
  LET to == {c \in clients : Selects(filter[c], e)}
  IN /\ send' = [c \in ClientIds |->
                   IF c \in to THEN Offer(send[c], LogItem(e, published + 1))
                   ELSE send[c]]
     /\ published' = published + 1
     /\ room' = [c \in ClientIds |->
                   IF c \in to /\ room[c] > 0 THEN room[c] - 1 ELSE room[c]]
     /\ roomAll' = [c \in ClientIds |->
                      IF c \in to /\ roomAll[c] > 0 THEN roomAll[c] - 1 ELSE roomAll[c]]
     /\ last' = [op |-> "BroadcastLog", entry |-> e, pre |-> send,
                 room |-> room, roomAll |-> roomAll]

\* the ingest loop: a line is read and parsed into an entry and stored; the
\* entry's timestamp is the one the line carries (an old one), or the wall
\* clock's when the line carries none
IngestStore ==
  \E ts \in {MinTime, now}, level \in Levels :
    LET e == [id |-> nextId, ts |-> ts, level |-> level]
    IN /\ pc = "read"
       /\ nextId <= MaxLines
       /\ StoreEntry(e)
       /\ entry' = e
       /\ pc' = "publish"
       /\ UNCHANGED <<startTime, clientVars, workerVars, historyVars>>
       /\ UNCHANGED <<taskVars, mainVars>>

\* the ingest loop: the stored entry is published
IngestBroadcast ==
  /\ pc = "publish"
  /\ BroadcastLog(entry)
  /\ entry' = NoEntry
  /\ pc' = "read"
  /\ UNCHANGED <<storeVars, taskVars, mainVars>>
  /\ UNCHANGED <<startTime, clients, conns, filter, timeRange, done, readPumps,
                 writePumps, initial, workerVars, subscribed, subscription,
                 resultsQueued, delivered>>

\* the ingest loop reads an empty line or a line that fails to parse: a
\* warning is logged and the loop goes on
IngestSkip ==
  /\ pc = "read"
  /\ badLines < MaxLines
  /\ badLines' = badLines + 1
  /\ last' = [op |-> "Line", kind |-> "unparsable", pre |-> db, published |-> published]
  /\ UNCHANGED <<storeVars, serverVars, taskVars, listening, closed, smu>>

\* the ingest loop without the continue after a failed Store: the entry
\* that was not committed goes on to BroadcastLog
IngestStoreFailsPublishes ==
  /\ pc = "read"
  /\ badLines < MaxLines
  /\ nextId <= MaxLines
  /\ writeCount' = writeCount + 1
  /\ badLines' = badLines + 1
  /\ nextId' = nextId + 1
  /\ entry' = [id |-> nextId, ts |-> now, level |-> "ERROR"]
  /\ pc' = "publish"
  /\ last' = [op |-> "Line", kind |-> "storefail", pre |-> db, published |-> published]
  /\ UNCHANGED <<db, cleanupChan, retentionSize, retentionDays, now>>
  /\ UNCHANGED <<startTime, clientVars, workerVars, historyVars>>
  /\ UNCHANGED <<taskVars, listening, closed, smu>>

\* the ingest loop reads a line that parses and whose Store fails (the write
\* was counted, the transaction did not commit): a warning is logged and the
\* loop goes on
IngestStoreFails ==
  /\ pc = "read"
  /\ badLines < MaxLines
  /\ writeCount' = writeCount + 1
  /\ badLines' = badLines + 1
  /\ last' = [op |-> "Line", kind |-> "storefail", pre |-> db, published |-> published]
  /\ UNCHANGED <<db, cleanupChan, retentionSize, retentionDays, now, nextId>>
  /\ UNCHANGED <<serverVars, taskVars, listening, closed, smu>>

\* the ingest loop meets a line longer than the scanner's buffer (64 KiB,
\* bufio.MaxScanTokenSize): Scan returns false, Err is ErrTooLong and
\* runCollectMode returns the error
IngestTooLong ==
  /\ pc = "read"
  /\ badLines < MaxLines
  /\ pc' = "failed"
  /\ badLines' = badLines + 1
  /\ last' = [op |-> "Line", kind |-> "oversized", pre |-> db, published |-> published]
  /\ UNCHANGED <<storeVars, startTime, clientVars, entry, workerVars, historyVars>>
  /\ UNCHANGED <<taskVars, listening, closed, smu>>

\* stdin ends: the database is synced and runCollectMode waits for a signal
IngestEOF ==
  /\ pc = "read"
  /\ pc' = "done"
  /\ last' = Step
  /\ UNCHANGED <<storeVars, startTime, clientVars, entry, workerVars, historyVars>>
  /\ UNCHANGED <<taskVars, mainVars>>

\* SIGINT or SIGTERM arrives while runCollectMode waits for it
Signal ==
  /\ pc = "done"
  /\ pc' = "return"
  /\ last' = Step
  /\ UNCHANGED <<storeVars, startTime, clientVars, entry, workerVars, historyVars>>
  /\ UNCHANGED <<taskVars, mainVars>>

\* runCollectMode returns: the deferred db.Close() closes the store
Close ==
  /\ pc \in {"return", "failed"}
  /\ closed' = TRUE
  /\ pc' = "closed"
  /\ last' = [op |-> "Close", after |-> pc]
  /\ UNCHANGED <<storeVars, startTime, clientVars, entry, workerVars, historyVars>>
  /\ UNCHANGED <<taskVars, listening, badLines, smu>>

\* a tick of the broadcast worker: scan for the entries after lastCheck
WorkerScan ==
  /\ worker = "wait"
  /\ published < MaxPublish
  /\ tickNow' = now
  /\ entries' = SelectSeq(ScanSeq(db), LAMBDA e : e.ts > lastCheck)
  /\ worker' = "broadcast"
  /\ last' = Step
  /\ UNCHANGED <<storeVars, taskVars, mainVars>>
  /\ UNCHANGED <<startTime, clientVars, ingestVars, lastCheck, historyVars>>

\* the broadcast worker publishes the next entry of its tick
WorkerBroadcast ==
  /\ worker = "broadcast"
  /\ entries # <<>>
  /\ BroadcastLog(Head(entries))
  /\ entries' = Tail(entries)
  /\ UNCHANGED <<storeVars, taskVars, mainVars>>
  /\ UNCHANGED <<startTime, clients, conns, filter, timeRange, done, readPumps,
                 writePumps, initial, ingestVars, lastCheck, tickNow, worker,
                 subscribed, subscription, resultsQueued, delivered>>

\* the broadcast worker ends its tick
WorkerDone ==
  /\ worker = "broadcast"
  /\ entries = <<>>
  /\ lastCheck' = tickNow
  /\ worker' = "wait"
  /\ last' = Step
  /\ UNCHANGED <<storeVars, taskVars, mainVars>>
  /\ UNCHANGED <<startTime, clientVars, ingestVars, tickNow, entries, historyVars>>

\* handleWebSocket: a connection is accepted, registered, and its two pumps
\* are started
handleWebSocket ==
  LET c == Cardinality(conns) + 1
  IN /\ listening
     /\ c <= MaxClients
     /\ conns' = conns \cup {c}
     /\ clients' = clients \cup {c}
     /\ readPumps' = [readPumps EXCEPT ![c] = "run"]
     /\ writePumps' = [writePumps EXCEPT ![c] = "run"]
     /\ last' = Step
     /\ UNCHANGED <<storeVars, taskVars, mainVars>>
     /\ UNCHANGED <<startTime, filter, timeRange, send, done, initial,
                    ingestVars, workerVars, historyVars>>

RECURSIVE Sum(_, _)
Sum(fn, S) ==
  IF S = {} THEN 0
  ELSE LET x == CHOOSE y \in S : TRUE IN fn[x] + Sum(fn, S \ {x})

\* subscriptions installed so far, over all connections
Subscriptions == Sum(subscribed, ClientIds)

\* Subscribe that drops the subscription when the query does not parse
SubscribeErrorClears(c) ==
  \E queryStr \in QueryStrings, tr \in RangeInputs :
    LET q == Parse(queryStr)
        f == RequestFilter(q, DefaultFilter(startTime), tr)
        n == subscribed[c] + 1
    IN /\ readPumps[c] = "run"
       /\ Subscriptions < MaxSubs
       /\ IF q = ParseError
          THEN /\ last' = [op |-> "SubscribeError", c |-> c, filter |-> filter[c],
                           timeRange |-> timeRange[c], initial |-> initial,
                           send |-> send[c]]
               /\ filter' = [filter EXCEPT ![c] = NilFilter]
               /\ timeRange' = [timeRange EXCEPT ![c] = NilRange]
               /\ UNCHANGED <<initial, subscribed, subscription>>
          ELSE /\ filter' = [filter EXCEPT ![c] = f]
               /\ timeRange' = [timeRange EXCEPT ![c] = tr]
               /\ initial' = initial \cup
                    {[c |-> c, q |-> f, tr |-> tr, sub |-> n, stage |-> "query",
                      msg |-> <<>>]}
               /\ subscribed' = [subscribed EXCEPT ![c] = n]
               /\ subscription' = [subscription EXCEPT ![c] = n]
               /\ last' = Step
       /\ UNCHANGED <<storeVars, taskVars, mainVars>>
       /\ UNCHANGED <<startTime, clients, conns, send, done, readPumps, writePumps,
                      ingestVars, workerVars, published, resultsQueued,
                      delivered, room, roomAll>>

\* readPump reads a subscribe message: a query that does not parse changes
\* nothing; otherwise the filter and the time range are installed and
\* sendInitialResults is started with the filter (tr is the time range of
\* the message, which the goroutine is not given)
Subscribe(c) ==
  \E queryStr \in QueryStrings, tr \in RangeInputs :
    LET q == Parse(queryStr)
        f == RequestFilter(q, DefaultFilter(startTime), tr)
        n == subscribed[c] + 1
    IN /\ readPumps[c] = "run"
       /\ Subscriptions < MaxSubs
       /\ IF q = ParseError
          THEN /\ last' = [op |-> "SubscribeError", c |-> c, filter |-> filter[c],
                           timeRange |-> timeRange[c], initial |-> initial,
                           send |-> send[c]]
               /\ UNCHANGED <<filter, timeRange, initial, subscribed, subscription>>
          ELSE /\ filter' = [filter EXCEPT ![c] = f]
               /\ timeRange' = [timeRange EXCEPT ![c] = tr]
               /\ initial' = initial \cup
                    {[c |-> c, q |-> f, tr |-> tr, sub |-> n, stage |-> "query",
                      msg |-> <<>>]}
               /\ subscribed' = [subscribed EXCEPT ![c] = n]
               /\ subscription' = [subscription EXCEPT ![c] = n]
               /\ last' = Step
       /\ UNCHANGED <<storeVars, taskVars, mainVars>>
       /\ UNCHANGED <<startTime, clients, conns, send, done, readPumps, writePumps,
                      ingestVars, workerVars, published, resultsQueued,
                      delivered, room, roomAll>>

\* readPump reads an unsubscribe message
Unsubscribe(c) ==
  /\ readPumps[c] = "run"
  /\ filter[c] # NilFilter
  /\ filter' = [filter EXCEPT ![c] = NilFilter]
  /\ timeRange' = [timeRange EXCEPT ![c] = NilRange]
  /\ subscription' = [subscription EXCEPT ![c] = 0]
  /\ last' = Step
  /\ UNCHANGED <<storeVars, taskVars, mainVars>>
  /\ UNCHANGED <<startTime, clients, conns, send, done, readPumps, writePumps,
                 initial, ingestVars, workerVars, published, subscribed,
                 resultsQueued, delivered, room, roomAll>>

\* readPump's exit without the delete from Server.clients
DisconnectStaysRegistered(c) ==
  /\ readPumps[c] = "run"
  /\ done' = [done EXCEPT ![c] = TRUE]
  /\ readPumps' = [readPumps EXCEPT ![c] = "exit"]
  /\ last' = Step
  /\ UNCHANGED <<storeVars, taskVars, mainVars>>
  /\ UNCHANGED <<startTime, clients, conns, filter, timeRange, send, writePumps,
                 initial, ingestVars, workerVars, historyVars>>

\* readPump fails to read (the peer is gone): the client is removed from the
\* registry, done is closed, the connection is closed
Disconnect(c) ==
  /\ readPumps[c] = "run"
  /\ clients' = clients \ {c}
  /\ done' = [done EXCEPT ![c] = TRUE]
  /\ readPumps' = [readPumps EXCEPT ![c] = "exit"]
  /\ last' = Step
  /\ UNCHANGED <<storeVars, taskVars, mainVars>>
  /\ UNCHANGED <<startTime, conns, filter, timeRange, send, writePumps, initial,
                 ingestVars, workerVars, historyVars>>

\* sendInitialResults runs its query, with the filter it was started with
\* and the time range the client has now
InitialQuery(g) ==
  /\ g \in initial
  /\ g.stage = "query"
  /\ LET res == QueryWithTimeRange(db, g.q, timeRange[g.c], InitialLimit, 0)
     IN /\ initial' = (initial \ {g}) \cup
                        {[g EXCEPT !.stage = "send", !.msg = ResultsItem(res)]}
        /\ last' = Step
  /\ UNCHANGED <<storeVars, taskVars, mainVars>>
  /\ UNCHANGED <<startTime, clients, conns, filter, timeRange, send, done,
                 readPumps, writePumps, ingestVars, workerVars, historyVars>>

\* sendInitialResults that writes its results message to the connection
\* itself instead of handing it to writePump
InitialSendWritesConn(g) ==
  /\ g \in initial
  /\ g.stage = "send"
  /\ initial' = initial \ {g}
  /\ resultsQueued' = [resultsQueued EXCEPT ![g.c] = @ \cup {g.sub}]
  /\ last' = Step
  /\ UNCHANGED <<storeVars, taskVars, mainVars>>
  /\ UNCHANGED <<startTime, clients, conns, filter, timeRange, send, done,
                 readPumps, writePumps, ingestVars, workerVars, published,
                 subscribed, subscription, delivered, room, roomAll>>

\* sendInitialResults sends the results message: the send waits for room
InitialSend(g) ==
  /\ g \in initial
  /\ g.stage = "send"
  /\ Len(send[g.c]) < SendCap
  /\ send' = [send EXCEPT ![g.c] = Append(@, g.msg)]
  /\ initial' = initial \ {g}
  /\ resultsQueued' = [resultsQueued EXCEPT ![g.c] = @ \cup {g.sub}]
  /\ roomAll' = [roomAll EXCEPT ![g.c] = IF @ > 0 THEN @ - 1 ELSE @]
  /\ last' = Step
  /\ UNCHANGED <<storeVars, taskVars, mainVars>>
  /\ UNCHANGED <<startTime, clients, conns, filter, timeRange, done, readPumps,
                 writePumps, ingestVars, workerVars, published, subscribed,
                 subscription, delivered, room>>

\* sendInitialResults gives up because done is closed
InitialAbort(g) ==
  /\ g \in initial
  /\ g.stage = "send"
  /\ done[g.c]
  /\ initial' = initial \ {g}
  /\ last' = Step
  /\ UNCHANGED <<storeVars, taskVars, mainVars>>
  /\ UNCHANGED <<startTime, clients, conns, filter, timeRange, send, done,
                 readPumps, writePumps, ingestVars, workerVars, historyVars>>

\* writePump takes the next item off client.send and writes it to the
\* connection; it returns when the write fails
writePump(c) ==
  /\ writePumps[c] = "run"
  /\ send[c] # <<>>
  /\ LET r == Receive(send[c])
     IN /\ send' = [send EXCEPT ![c] = r.rest]
        /\ room' = [room EXCEPT ![c] = @ + 1]
        /\ roomAll' = [roomAll EXCEPT ![c] = @ + 1]
        /\ \E ok \in BOOLEAN :
             /\ writePumps' = [writePumps EXCEPT ![c] = IF ok THEN "run" ELSE "exit"]
             /\ delivered' = [delivered EXCEPT ![c] =
                                IF ok /\ r.item.type = "log" THEN r.item.seq ELSE @]
             /\ last' = Step
  /\ UNCHANGED <<storeVars, taskVars, mainVars>>
  /\ UNCHANGED <<startTime, clients, conns, filter, timeRange, done, readPumps,
                 initial, ingestVars, workerVars, published, subscribed,
                 subscription, resultsQueued>>

\* writePump returns because done is closed
writePumpDone(c) ==
  /\ writePumps[c] = "run"
  /\ done[c]
  /\ writePumps' = [writePumps EXCEPT ![c] = "exit"]
  /\ last' = Step
  /\ UNCHANGED <<storeVars, taskVars, mainVars>>
  /\ UNCHANGED <<startTime, clients, conns, filter, timeRange, send, done,
                 readPumps, initial, ingestVars, workerVars, historyVars>>

\* handleQuery: POST /query
handleQuery ==
  \E queryStr \in QueryStrings, tr \in RangeInputs, limit \in 0..1, offset \in 0..1 :
    LET q == Parse(queryStr)
        f == RequestFilter(q, DefaultFilter(startTime), tr)
    IN /\ last' = IF q = ParseError
                  THEN [op |-> "handleQuery", status |-> 400]
                  ELSE [op |-> "handleQuery", status |-> 200,
                        filter |-> f, tr |-> tr,
                        limit |-> IF limit = 0 THEN DefaultLimit ELSE limit,
                        offset |-> offset,
                        res |-> QueryWithTimeRange(db, f, tr,
                                  IF limit = 0 THEN DefaultLimit ELSE limit, offset)]
       /\ UNCHANGED <<storeVars, taskVars, mainVars>>
       /\ UNCHANGED <<serverVars, taskVars, mainVars>>

Init == StoreInit /\ StoreOnly

Next ==
  \/ Store
  \/ cleanupWorker
  \/ DeleteAll
  \/ DeleteByLevel
  \/ DeleteOlderThan
  \/ Tick

Spec == Init /\ [][Next]_vars

\* the specification of retention over restarts: records are stored, the
\* cleanup worker sweeps, and the store is closed and opened again
RetentionNext ==
  \/ Store
  \/ cleanupWorker
  \/ NewBadgerStorage
  \/ Tick

RetentionSpec == Init /\ [][RetentionNext]_vars

\* the specification of the store under concurrent callers
LockNext ==
  \/ \E t \in Writers : StoreCount(t)
  \/ \E t \in Writers : StoreUpdate(t)
  \/ \E t \in Writers : StoreTrigger(t)
  \/ WorkerReceive
  \/ SweepCollect
  \/ DeleteCollect
  \/ \E t \in Deleters : DeleteUpdate(t)

LockSpec == Init /\ [][LockNext]_vars

\* the specification of Scan next to concurrent callers of Store and of the
\* deletions
ScanNext ==
  \/ \E t \in Writers : StoreCount(t)
  \/ \E t \in Writers : StoreUpdate(t)
  \/ \E t \in Writers : StoreTrigger(t)
  \/ DeleteCollect
  \/ DeleteUpdate("delete")
  \/ ScanView
  \/ ScanCallback
  \/ ScanCallbackStore
  \/ ScanReturn

ScanInit == Init /\ retentionSize = 0

ScanSpec == ScanInit /\ [][ScanNext]_vars

\* the specification of the query path: records are stored and queried
QueryNext ==
  \/ Store
  \/ QueryCall

QuerySpec == Init /\ [][QueryNext]_vars

\* the specification of collect mode in fresh mode: the ingest loop and the
\* server with its connections
ServerInit == StoreInit /\ retentionSize = 0 /\ NewServer /\ startTime = now

ServerNext ==
  \/ IngestStore
  \/ IngestBroadcast
  \/ handleWebSocket
  \/ \E c \in ClientIds : Subscribe(c)
  \/ \E c \in ClientIds : Unsubscribe(c)
  \/ \E c \in ClientIds : Disconnect(c)
  \/ \E g \in initial : InitialQuery(g)
  \/ \E g \in initial : InitialSend(g)
  \/ \E g \in initial : InitialAbort(g)
  \/ \E c \in ClientIds : writePump(c)
  \/ \E c \in ClientIds : writePumpDone(c)

ServerSpec == ServerInit /\ [][ServerNext]_vars

\* the specification of the HTTP query path in collect mode, fresh or not
HttpInit == StoreInit /\ retentionSize = 0 /\ NewServer

HttpNext ==
  \/ IngestStore
  \/ IngestBroadcast
  \/ handleQuery

HttpSpec == HttpInit /\ [][HttpNext]_vars

\* the specification of collect mode with --all (no start time): the ingest
\* loop and a connection that subscribes
AllInit == HttpInit /\ startTime = 0

AllNext ==
  \/ IngestStore
  \/ IngestBroadcast
  \/ handleWebSocket
  \/ \E c \in ClientIds : Subscribe(c)
  \/ \E g \in initial : InitialQuery(g)
  \/ \E g \in initial : InitialSend(g)
  \/ \E c \in ClientIds : writePump(c)

AllSpec == AllInit /\ [][AllNext]_vars

\* the specification of the ingest loop of collect mode from its first line
\* to the end of the process, with a connection that listens
IngestNext ==
  \/ IngestStore
  \/ IngestBroadcast
  \/ IngestSkip
  \/ IngestStoreFails
  \/ IngestTooLong
  \/ IngestEOF
  \/ Signal
  \/ Close
  \/ handleWebSocket
  \/ \E c \in ClientIds : writePump(c)

IngestSpec == HttpInit /\ [][IngestNext]_vars

\* the specification of the broadcast worker next to the ingest loop, with
\* a connection that listens
WorkerNext ==
  \/ IngestStore
  \/ IngestBroadcast
  \/ WorkerScan
  \/ WorkerBroadcast
  \/ WorkerDone
  \/ handleWebSocket
  \/ \E c \in ClientIds : writePump(c)
  \/ Tick

WorkerSpec == HttpInit /\ [][WorkerNext]_vars

(***************************************************************************)
(* Properties of the store.                                                *)
(***************************************************************************)
RECURSIVE SumSizes(_, _)
SumSizes(d, ks) ==
  IF ks = {} THEN 0
  ELSE LET k == CHOOSE x \in ks : TRUE
       IN EstimatedSize(d, k) + SumSizes(d, ks \ {k})

Min(a, b) == IF a < b THEN a ELSE b

\* the last operation was a retention sweep, and it took the size branch
SizeSweep ==
  /\ last.op = "Sweep"
  /\ retentionSize > 0
  /\ last.currentSize > retentionSize

\* the last operation was a retention sweep with the size budget not exceeded
TimeSweep ==
  /\ last.op = "Sweep"
  /\ ~(retentionSize > 0 /\ last.currentSize > retentionSize)

\* C1: every primary key log:{T}:{I} holding a record of level L has its
\* by-level key index:level:{L}:{T}:{I}, and every by-level key belongs to a
\* primary record, in every state reachable by Store, DeleteAll,
\* DeleteByLevel, DeleteOlderThan and retention sweeps.
C1_IndexMatchesPrimary ==
  /\ \A k \in LogKeys(db) :
       /\ k = PrimaryKey(db[k])
       /\ LevelKey(db[k]) \in IndexKeys(db)
  /\ \A x \in IndexKeys(db) :
       Cardinality({k \in LogKeys(db) : LevelKey(db[k]) = x}) = 1

\* a deletion has removed some records of a store and left others
C1_Witness ==
  /\ last.op \in {"Sweep", "DeleteByLevel", "DeleteOlderThan"}
  /\ LogKeys(db) # {}
  /\ LogKeys(db) # LogKeys(last.pre)

\* C5: a forward scan of the primary prefix yields the records in
\* non-decreasing timestamp order (all timestamps of the model are after the
\* epoch).
C5_ScanChronological ==
  \A i, j \in 1..Len(ScanSeq(db)) :
    i < j => ScanSeq(db)[i].ts <= ScanSeq(db)[j].ts

\* C6: Query returns total = the number of stored records matching the
\* filter, whatever limit and offset, and the page = the matching records in
\* forward scan order without the first offset ones, cut to limit.
C6_QueryPage ==
  last.op = "Query" =>
    LET matches == SelectSeq(ScanSeq(db), LAMBDA e : Match(last.filter, e))
    IN /\ last.res.total = Len(matches)
       /\ last.res.entries =
            SubSeq(matches, last.offset + 1,
                   Min(Len(matches), last.offset + last.limit))

\* a query whose page is cut on both sides and whose filter rejects a record
C6_Witness ==
  /\ last.op = "Query"
  /\ last.offset = 1
  /\ last.limit = 1
  /\ last.res.total = 2
  /\ Len(last.res.entries) = 1
  /\ \E k \in LogKeys(db) : ~Match(last.filter, db[k])

\* C9: after a retention sweep with retentionDays > 0 and the size budget not
\* exceeded, no record older than now - retentionDays remains, every record
\* at or after that cutoff remains with its by-level key, and the by-level
\* keys of the removed records are gone.
C9_TimeRetention ==
  (TimeSweep /\ retentionDays > 0) =>
    LET cutoff == Cutoff(now, retentionDays)
        pre == last.pre
    IN /\ \A k \in LogKeys(db) : db[k].ts >= cutoff
       /\ \A k \in LogKeys(pre) :
            IF pre[k].ts >= cutoff
            THEN /\ k \in LogKeys(db)
                 /\ db[k] = pre[k]
                 /\ LevelKey(pre[k]) \in IndexKeys(db)
            ELSE /\ k \notin LogKeys(db)
                 /\ LevelKey(pre[k]) \notin IndexKeys(db)

\* a time sweep that removed an old record and kept a recent one
C9_Witness ==
  /\ TimeSweep
  /\ retentionDays > 0
  /\ \E k \in LogKeys(last.pre) : last.pre[k].ts < Cutoff(now, retentionDays)
  /\ LogKeys(db) # {}

C11_BothPoliciesInOneSweep ==
  (SizeSweep /\ retentionDays > 0) =>
    \A k \in LogKeys(db) : db[k].ts >= Cutoff(now, retentionDays)

\* C12: a retention sweep that directly follows a retention sweep, with no
\* Store in between, deletes nothing.
C12_SecondSweepDeletesNothing ==
  (last.op = "Sweep" /\ last.second) => db = last.pre

\* C16: after DeleteOlderThan(t) a full scan yields no record with
\* timestamp < t, and every record with timestamp >= t is still there,
\* unchanged, with its by-level key; the by-level keys of the removed
\* records are gone.
C16_DeleteOlderThanExact ==
  last.op = "DeleteOlderThan" =>
    LET pre == last.pre
        t == last.cutoff
    IN /\ \A i \in 1..Len(ScanSeq(db)) : ScanSeq(db)[i].ts >= t
       /\ last.count = Cardinality({k \in LogKeys(pre) : pre[k].ts < t})
       /\ \A k \in LogKeys(pre) :
            IF pre[k].ts >= t
            THEN /\ k \in LogKeys(db)
                 /\ db[k] = pre[k]
                 /\ LevelKey(pre[k]) \in IndexKeys(db)
                 /\ db[LevelKey(pre[k])] = pre[LevelKey(pre[k])]
            ELSE /\ k \notin LogKeys(db)
                 /\ LevelKey(pre[k]) \notin IndexKeys(db)

\* DeleteOlderThan(t) removed an older record and kept one stamped exactly t
C16_Witness ==
  /\ last.op = "DeleteOlderThan"
  /\ \E k \in LogKeys(last.pre) : last.pre[k].ts < last.cutoff
  /\ \E k \in LogKeys(db) : db[k].ts = last.cutoff

\* the retention sweeps that are executing: enforceRetention has been called
\* and has not returned
Sweeping == {t \in Tasks : t = "cleanup" /\ tasks[t].pc \in {"enforce", "delete"}}

\* C13: at most one retention sweep executes at any time; a Store that asks
\* for a sweep starts none itself, it leaves at most one request pending
\* (a request offered while one is pending is discarded), and its offer can
\* always be taken at once, whatever the worker is doing.
C13_OneSweepAtATime ==
  /\ Cardinality(Sweeping) <= 1
  /\ cleanupChan <= 1
  /\ last.op = "StoreTrigger" =>
       cleanupChan = (IF last.pending = 0 THEN 1 ELSE last.pending)
  /\ \A t \in Writers : tasks[t].pc = "trigger" => ENABLED StoreTrigger(t)

\* a Store has offered a request while a sweep holds the lock between its
\* scan and its delete: the request is pending, the one sweep goes on
C13_Witness ==
  /\ last.op = "StoreTrigger"
  /\ tasks["cleanup"].pc = "delete"
  /\ mu = "cleanup"
  /\ cleanupChan = 1

\* C14: a Store's write transaction excludes the deletions: no deletion
\* holds the lock while a Store is in its write transaction, and no Store
\* write commits between a deletion's key-collection scan and its delete
\* transaction.
C14_NoStoreCommitDuringDeletion ==
  /\ \A t \in Writers : tasks[t].pc = "update" => mu \notin Deleters
  /\ last.op = "StoreUpdate" => last.holder \notin Deleters

\* C15: Scan does not hold the store's lock while it is in its callbacks:
\* unless a deletion holds the lock, a concurrent Store or deletion and a
\* Store called from the callback can take the lock at once.
C15_ScanHoldsNoLock ==
  tasks["scan"].pc = "callback" =>
    /\ mu # "scan"
    /\ (mu \notin Deleters /\ nextId <= MaxWrites) =>
         /\ \A t \in Writers : tasks[t].pc = "idle" => ENABLED StoreCount(t)
         /\ tasks["scan"].rest # <<>> => ENABLED ScanCallbackStore
    /\ (mu \notin Deleters /\ tasks["delete"].pc = "idle") => ENABLED DeleteCollect

\* a callback of Scan has called Store while the scan still has entries to
\* visit, and a concurrent Store is in its write transaction
C15_Witness ==
  /\ tasks["scan"].pc = "callback"
  /\ tasks["scan"].rest # <<>>
  /\ last.op = "Store"
  /\ \E t \in Writers : tasks[t].pc = "update"

(***************************************************************************)
(* Properties of the server.                                               *)
(***************************************************************************)
\* the log entries among the items of a queue
LogItems(q) == SelectSeq(q, LAMBDA item : item.type = "log")

\* the last operation was a BroadcastLog that selected client c
Published(c) ==
  /\ last.op = "BroadcastLog"
  /\ c \in clients
  /\ Selects(filter[c], last.entry)

\* the item the last BroadcastLog offered
Offered == LogItem(last.entry, published)

\* C2: BroadcastLog never waits on a subscriber: whenever the ingest loop has
\* stored an entry and is about to publish it, the publish step can be taken
\* at once, whatever the clients' queues hold, and whenever the loop is back
\* at reading with lines left, the next line can be stored.
C2_PublishNeverWaits ==
  /\ pc = "publish" => ENABLED IngestBroadcast
  /\ (pc = "read" /\ nextId <= MaxLines) => ENABLED IngestStore

\* the ingest loop is about to publish an entry that a registered client
\* selects, and that client's queue is full and its writePump is gone
C2_Witness ==
  /\ pc = "publish"
  /\ \E c \in clients :
       /\ Selects(filter[c], entry)
       /\ Len(send[c]) = SendCap
       /\ writePumps[c] = "exit"

C4_DeliveredInPublishOrder ==
  \A c \in ClientIds :
    LET logs == LogItems(send[c])
    IN /\ \A i \in 1..Len(logs) : logs[i].seq > delivered[c]
       /\ \A i, j \in 1..Len(logs) : i < j => logs[i].seq < logs[j].seq

\* the first published record has been written out and the second is queued
C4_Witness ==
  \E c \in ClientIds :
    /\ delivered[c] = 1
    /\ LogItems(send[c]) # <<>>
    /\ LogItems(send[c])[1].seq = 2

\* C7: in fresh mode no record older than the start time is returned by
\* POST /query, included in a results message, or offered to a client as a
\* live log.
C7_FreshModeHidesOlder ==
  startTime # 0 =>
    /\ \A c \in ClientIds : \A i \in 1..Len(send[c]) :
         LET item == send[c][i]
         IN IF item.type = "log" THEN item.entry.ts >= startTime
            ELSE \A j \in 1..Len(item.logs) : item.logs[j].ts >= startTime
    /\ \A g \in initial : g.stage = "send" =>
         \A j \in 1..Len(g.msg.logs) : g.msg.logs[j].ts >= startTime
    /\ (last.op = "handleQuery" /\ last.status = 200) =>
         \A j \in 1..Len(last.res.entries) : last.res.entries[j].ts >= startTime

\* C8: a live log selected by the filter of a subscription is enqueued only
\* after the results message of that subscription.
C8_SnapshotBeforeLive ==
  \A c \in ClientIds :
    (Published(c) /\ subscription[c] > 0 /\ send[c] # last.pre[c]) =>
      subscription[c] \in resultsQueued[c]

C17_DeliveredInTimestampOrder ==
  \A c \in ClientIds :
    (subscription[c] > 0 /\ subscription[c] \in resultsQueued[c]) =>
      LET logs == LogItems(send[c])
      IN \A i, j \in 1..Len(logs) :
           logs[i].entry.ts < logs[j].entry.ts => i < j

\* C18: a line that fails to parse, fails to store or is oversized is
\* skipped, neither stored nor published, and the ingest loop goes on to
\* read the next line.
C18_LoopSurvivesBadLines ==
  last.op = "Line" =>
    /\ db = last.pre
    /\ published = last.published
    /\ pc = "read"

\* C19: when the store is closed after SIGINT or SIGTERM, the HTTP listener
\* has stopped accepting connections and every client has been removed from
\* the registry.
C19_StoreClosedLast ==
  (last.op = "Close" /\ last.after = "return") =>
    (~listening /\ clients = {})

\* the specification of the statistics: records of any level are stored,
\* swept and deleted, and GetStats is called in between
StatsNext ==
  \/ StoreJSON
  \/ cleanupWorker
  \/ DeleteByLevel
  \/ DeleteOlderThan
  \/ GetStatsCall

StatsSpec == Init /\ [][StatsNext]_vars

\* the specification of the field summary: records are stored and GetFields
\* is called in between
FieldsNext ==
  \/ StoreJSON
  \/ GetFieldsCall

FieldsSpec == Init /\ [][FieldsNext]_vars

\* the specification of a connection's life from accept to the exit of its
\* pumps, next to the ingest loop: each pump is a goroutine of its own and
\* is scheduled as long as it can take a step
CancelNext ==
  \/ IngestStore
  \/ IngestBroadcast
  \/ handleWebSocket
  \/ \E c \in ClientIds : Subscribe(c)
  \/ \E c \in ClientIds : Disconnect(c)
  \/ \E g \in initial : InitialQuery(g)
  \/ \E g \in initial : InitialSend(g)
  \/ \E g \in initial : InitialAbort(g)
  \/ \E c \in ClientIds : writePump(c)
  \/ \E c \in ClientIds : writePumpDone(c)

CancelFair == \A c \in ClientIds : WF_vars(writePump(c) \/ writePumpDone(c))

CancelSpec == AllInit /\ [][CancelNext]_vars /\ CancelFair

(***************************************************************************)
(* The query language (pkg/query/lucene.go).  A query string is a byte     *)
(* string; the parser is the code's recursive descent over input and pos,  *)
(* each function returning the filter (or the error) and the position it   *)
(* left the parser at.                                                     *)
(***************************************************************************)
space == 32
quote == 34
lparen == 40
rparen == 41
star == 42
lbracket == 91
rbracket == 93

\* "OR", "AND", "NOT", " TO ", "timestamp", "level", "message"
kwOR == <<79, 82>>
kwAND == <<65, 78, 68>>
kwNOT == <<78, 79, 84>>
sepTO == <<32, 84, 79, 32>>
fieldTimestamp == <<116, 105, 109, 101, 115, 116, 97, 109, 112>>
fieldLevel == <<108, 101, 118, 101, 108>>
fieldMessage == <<109, 101, 115, 115, 97, 103, 101>>

\* strings.Index(s, sub): offset of the first occurrence, -1 when absent
Index(s, sub) ==
  LET offs == {i \in 0..(Len(s) - Len(sub)) : SubSeq(s, i + 1, i + Len(sub)) = sub}
  IN IF offs = {} THEN -1 ELSE CHOOSE i \in offs : \A j \in offs : i <= j

\* strings.Contains(s, sub)
Contains(s, sub) == Index(s, sub) >= 0

\* strings.ToLower on ASCII
ToLower(s) == [i \in 1..Len(s) |-> IF s[i] \in 65..90 THEN s[i] + 32 ELSE s[i]]

\* strings.TrimPrefix(s, <<ch>>), strings.TrimSuffix(s, <<ch>>)
TrimPrefix(s, ch) == IF s # <<>> /\ s[1] = ch THEN Tail(s) ELSE s

TrimSuffix(s, ch) ==
  IF s # <<>> /\ s[Len(s)] = ch THEN SubSeq(s, 1, Len(s) - 1) ELSE s

\* strings.Trim(s, cutset) for a one-character cutset: every leading and
\* trailing occurrence goes
RECURSIVE Trim(_, _)
Trim(s, ch) ==
  IF s # <<>> /\ s[1] = ch THEN Trim(Tail(s), ch)
  ELSE IF s # <<>> /\ s[Len(s)] = ch THEN Trim(SubSeq(s, 1, Len(s) - 1), ch)
  ELSE s

\* strings.TrimSpace; the inputs of the model hold no white space but ' '
TrimSpace(s) == Trim(s, space)

\* strings.Split(s, sep) for a non-empty sep
RECURSIVE Split(_, _)
Split(s, sep) ==
  LET i == Index(s, sep)
  IN IF i < 0 THEN <<s>>
     ELSE <<SubSeq(s, 1, i)>> \o Split(SubSeq(s, i + Len(sep) + 1, Len(s)), sep)

IsDigits(s) == s # <<>> /\ \A i \in 1..Len(s) : s[i] \in 48..57

\* strconv.ParseFloat with the error turned into 0; the numbers of the
\* model are written as plain decimal digits
parseNumericValue(val) == IF IsDigits(val) THEN Sscanf(val) ELSE 0

\* parseTimeValue: an absolute time is written as its tick count in decimal;
\* everything else is the zero time
parseTimeValue(val) == IF IsDigits(val) THEN Sscanf(val) ELSE 0

OrFilter(left, right) == [k |-> "Or", left |-> left, right |-> right]

NotFilter(f) == [k |-> "Not", filter |-> f]

\* FieldFilter{Field, Value, Exact} on any field
FieldFilterOn(field, value, exact) ==
  [k |-> "FieldOn", field |-> field, value |-> value, exact |-> exact]

KeywordFilter(keyword) == [k |-> "Keyword", keyword |-> keyword]

WildcardFilter(field, pattern) ==
  [k |-> "Wildcard", field |-> field, pattern |-> pattern]

NumericRangeFilter(field, start, end) ==
  [k |-> "NumRange", field |-> field, start |-> start, end |-> end]

\* a parse error carries its message
ParseErrorf(msg) == [k |-> "Error", msg |-> msg]

peek(input, pos, str) ==
  /\ pos + Len(str) <= Len(input)
  /\ SubSeq(input, pos + 1, pos + Len(str)) = str

peekChar(input, pos, ch) == pos < Len(input) /\ input[pos + 1] = ch

RECURSIVE skipWhitespace(_, _)
skipWhitespace(input, pos) ==
  IF pos < Len(input) /\ input[pos + 1] = space
  THEN skipWhitespace(input, pos + 1)
  ELSE pos

\* the scanning loops of readToken: advance to the first byte in stops, or
\* to the end of the input
RECURSIVE readUntil(_, _, _)
readUntil(input, pos, stops) ==
  IF pos < Len(input) /\ input[pos + 1] \notin stops
  THEN readUntil(input, pos + 1, stops)
  ELSE pos

\* readToken: quotes and brackets group only when the token starts with one
readToken(input, start) ==
  LET closing == IF peekChar(input, start, quote) THEN quote ELSE rbracket
      grouped == readUntil(input, start + 1, {closing})
      plain   == readUntil(input, start, {space, lparen, rparen})
      pos == IF peekChar(input, start, quote) \/ peekChar(input, start, lbracket)
             THEN IF peekChar(input, grouped, closing) THEN grouped + 1 ELSE grouped
             ELSE plain
  IN [token |-> SubSeq(input, start + 1, pos), pos |-> pos]

parseRange(field, value) ==
  LET rangeStr == TrimSuffix(TrimPrefix(value, lbracket), rbracket)
      parts == Split(rangeStr, sepTO)
      start == TrimSpace(parts[1])
      end   == TrimSpace(parts[2])
  IN IF Len(parts) # 2 THEN ParseErrorf("invalid range format")
     ELSE IF field = fieldTimestamp
     THEN TimestampRangeFilter(parseTimeValue(start), parseTimeValue(end))
     ELSE NumericRangeFilter(field, parseNumericValue(start), parseNumericValue(end))

\* the part of parsePrimary that turns a token into a filter
TokenFilter(token) ==
  LET field == SplitFirst(token)
      value == SubSeq(token, Len(field) + 2, Len(token))
  IN IF token = <<>> THEN ParseErrorf("unexpected end of query")
     ELSE IF ~Contains(token, <<colon>>) THEN KeywordFilter(token)
     ELSE IF HasPrefix(value, <<lbracket>>) THEN parseRange(field, value)
     ELSE IF HasPrefix(value, <<quote>>)
     THEN FieldFilterOn(field, Trim(value, quote), TRUE)
     ELSE IF Contains(value, <<star>>) THEN WildcardFilter(field, value)
     ELSE FieldFilterOn(field, value, FALSE)

Failed(r) == r.f.k = "Error"

RECURSIVE parseOr(_, _)
RECURSIVE parseOrLoop(_, _)
RECURSIVE parseAnd(_, _)
RECURSIVE parseAndLoop(_, _)
RECURSIVE parseNot(_, _)
RECURSIVE parsePrimary(_, _)

\* the end of a parenthesised group: inner is what parseOr returned
CloseGroup(input, inner) ==
  LET close == skipWhitespace(input, inner.pos)
  IN IF Failed(inner) THEN inner
     ELSE IF ~peekChar(input, close, rparen)
     THEN [f |-> ParseErrorf("expected closing parenthesis"), pos |-> close]
     ELSE [f |-> inner.f, pos |-> close + 1]

parsePrimary(input, pos0) ==
  LET pos == skipWhitespace(input, pos0)
      tok == readToken(input, pos)
  IN IF peekChar(input, pos, lparen)
     THEN CloseGroup(input, parseOr(input, pos + 1))
     ELSE [f |-> TokenFilter(tok.token), pos |-> tok.pos]

\* &NotFilter{Filter: filter}, or the error of parsePrimary
Negate(r) == IF Failed(r) THEN r ELSE [f |-> NotFilter(r.f), pos |-> r.pos]

parseNot(input, pos0) ==
  LET pos == skipWhitespace(input, pos0)
  IN IF peek(input, pos, kwNOT)
     THEN Negate(parsePrimary(input, skipWhitespace(input, pos + 3)))
     ELSE parsePrimary(input, pos)

\* left = &AndFilter{left, right}, or the error of the right side
JoinAnd(left, right) ==
  IF Failed(right) THEN right
  ELSE [f |-> AndFilter(left.f, right.f), pos |-> right.pos]

\* the loop of parseAnd: an explicit AND, or an implicit one before anything
\* that is neither the end, nor OR, nor a closing parenthesis; left is the
\* filter so far and the position behind it, or the error that ends the loop
parseAndLoop(input, left) ==
  LET pos == skipWhitespace(input, left.pos)
  IN IF Failed(left) THEN left
     ELSE IF peek(input, pos, kwAND)
     THEN parseAndLoop(input,
            JoinAnd(left, parseNot(input, skipWhitespace(input, pos + 3))))
     ELSE IF pos < Len(input) /\ ~peek(input, pos, kwOR) /\ ~peek(input, pos, <<rparen>>)
     THEN parseAndLoop(input, JoinAnd(left, parseNot(input, pos)))
     ELSE [f |-> left.f, pos |-> pos]

parseAnd(input, pos) == parseAndLoop(input, parseNot(input, pos))

\* left = &OrFilter{left, right}, or the error of the right side
JoinOr(left, right) ==
  IF Failed(right) THEN right
  ELSE [f |-> OrFilter(left.f, right.f), pos |-> right.pos]

parseOrLoop(input, left) ==
  LET pos == skipWhitespace(input, left.pos)
  IN IF Failed(left) THEN left
     ELSE IF peek(input, pos, kwOR)
     THEN parseOrLoop(input,
            JoinOr(left, parseAnd(input, skipWhitespace(input, pos + 2))))
     ELSE [f |-> left.f, pos |-> pos]

parseOr(input, pos) == parseOrLoop(input, parseAnd(input, pos))

\* parser.parse: the filter of parseOr; the position it stopped at is dropped
parse(input) == parseOr(input, 0)

\* query.Parse on a byte string
ParseBytes(queryStr) ==
  IF queryStr = <<>> \/ queryStr = <<star>> THEN AllFilter
  ELSE parse(queryStr).f

(***************************************************************************)
(* Matching a parsed query against a log entry with a message and fields.  *)
(* A field value is a number or a string, as encoding/json decodes it.     *)
(***************************************************************************)
Num(n) == [t |-> "num", v |-> n]

Str(s) == [t |-> "str", v |-> s]

\* fmt.Sprintf("%v", v)
Sprint(v) == IF v.t = "num" THEN FormatInt(v.v) ELSE v.v

\* the switch on the field name in FieldFilter.Match and WildcardFilter.Match
HasField(field, e) ==
  field = fieldLevel \/ field = fieldMessage \/ field \in DOMAIN e.fields

FieldValue(field, e) ==
  IF field = fieldLevel THEN e.level
  ELSE IF field = fieldMessage THEN e.message
  ELSE Sprint(e.fields[field])

FieldFilterMatch(f, e) ==
  /\ HasField(f.field, e)
  /\ IF f.exact THEN FieldValue(f.field, e) = f.value
     ELSE Contains(ToLower(FieldValue(f.field, e)), ToLower(f.value))

KeywordFilterMatch(f, e) ==
  \/ Contains(ToLower(e.message), ToLower(f.keyword))
  \/ \E n \in DOMAIN e.fields :
       Contains(ToLower(Sprint(e.fields[n])), ToLower(f.keyword))

\* the regular expression ^pattern$ with every * turned into .*
RECURSIVE Glob(_, _)
Glob(pattern, s) ==
  IF pattern = <<>> THEN s = <<>>
  ELSE IF Head(pattern) = star
  THEN Glob(Tail(pattern), s) \/ (s # <<>> /\ Glob(pattern, Tail(s)))
  ELSE s # <<>> /\ Head(s) = Head(pattern) /\ Glob(Tail(pattern), Tail(s))

WildcardFilterMatch(f, e) ==
  /\ HasField(f.field, e)
  /\ Glob(ToLower(f.pattern), ToLower(FieldValue(f.field, e)))

NumericRangeFilterMatch(f, e) ==
  /\ f.field \in DOMAIN e.fields
  /\ LET v == e.fields[f.field]
     IN /\ v.t = "num" \/ IsDigits(v.v)
        /\ LET value == IF v.t = "num" THEN v.v ELSE Sscanf(v.v)
           IN value >= f.start /\ value <= f.end

RECURSIVE MatchEntry(_, _)
MatchEntry(f, e) ==
  CASE f.k = "All"      -> TRUE
    [] f.k = "And"      -> MatchEntry(f.left, e) /\ MatchEntry(f.right, e)
    [] f.k = "Or"       -> MatchEntry(f.left, e) \/ MatchEntry(f.right, e)
    [] f.k = "Not"      -> ~MatchEntry(f.filter, e)
    [] f.k = "FieldOn"  -> FieldFilterMatch(f, e)
    [] f.k = "Keyword"  -> KeywordFilterMatch(f, e)
    [] f.k = "Wildcard" -> WildcardFilterMatch(f, e)
    [] f.k = "NumRange" -> NumericRangeFilterMatch(f, e)
    [] f.k = "TsRange"  -> Match(f, e)

(***************************************************************************)
(* Parsing and matching as a state machine: a query is made of up to       *)
(* MaxWords words separated by single spaces, and is run against a fixed   *)
(* set of stored entries.                                                  *)
(***************************************************************************)
fieldStatus == <<115, 116, 97, 116, 117, 115>>

msgRequest == <<114, 101, 113, 117, 101, 115, 116>>
msgConnectionTimeout == <<99, 111, 110, 110, 101, 99, 116, 105, 111, 110, 32, 116, 105, 109, 101, 111, 117, 116>>
msgReadTimeout == <<114, 101, 97, 100, 32, 116, 105, 109, 101, 111, 117, 116>>
msgConnectionRefused == <<99, 111, 110, 110, 101, 99, 116, 105, 111, 110, 32, 114, 101, 102, 117, 115, 101, 100>>

NoFields == [x \in {} |-> Num(0)]

StatusEntry(ts, status) ==
  [ts |-> ts, level |-> LevelBytes("INFO"), message |-> msgRequest,
   fields |-> [x \in {fieldStatus} |-> Num(status)]]

MessageEntry(ts, message) ==
  [ts |-> ts, level |-> LevelBytes("ERROR"), message |-> message,
   fields |-> NoFields]

Statuses == <<199, 200, 250, 299, 300>>

Corpus ==
  [i \in 1..5 |-> StatusEntry(i, Statuses[i])] \o
  <<MessageEntry(6, msgConnectionTimeout), MessageEntry(7, msgReadTimeout),
    MessageEntry(8, msgConnectionRefused)>>

\* status:[200 TO 299] and message:"connection refused", word by word
wRangeOpen == <<115, 116, 97, 116, 117, 115, 58, 91, 50, 48, 48>>
wTO == <<84, 79>>
wRangeClose == <<50, 57, 57, 93>>
wQuotedOpen == <<109, 101, 115, 115, 97, 103, 101, 58, 34, 99, 111, 110, 110, 101, 99, 116, 105, 111, 110>>
wQuotedClose == <<114, 101, 102, 117, 115, 101, 100, 34>>
\* terms
wTimeout == <<116, 105, 109, 101, 111, 117, 116>>
wLevelError == <<108, 101, 118, 101, 108, 58, 69, 82, 82, 79, 82>>
wWildcard == <<109, 101, 115, 115, 97, 103, 101, 58, 42, 114, 101, 102, 117, 115, 101, 100>>
wColonFoo == <<58, 102, 111, 111>>
\* words that begin with an operator
wORDER == <<79, 82, 68, 69, 82>>
wANDROID == <<65, 78, 68, 82, 79, 73, 68>>
wNOTICE == <<78, 79, 84, 73, 67, 69>>

Terms == {wTimeout, wLevelError, wWildcard}

OperatorLike == {wORDER, wANDROID, wNOTICE}

Words ==
  Terms \cup OperatorLike \cup
  {wRangeOpen, wTO, wRangeClose, wQuotedOpen, wQuotedClose, wColonFoo,
   kwAND, kwOR, kwNOT, <<lparen>>, <<rparen>>, <<lparen, rparen>>}

RECURSIVE Join(_)
Join(ws) ==
  IF Len(ws) = 1 THEN ws[1] ELSE ws[1] \o <<space>> \o Join(Tail(ws))

\* the range query of the documentation: status:[200 TO 299]
RangeQuery == Join(<<wRangeOpen, wTO, wRangeClose>>)

ParseInputs ==
  {<<>>, <<star>>, RangeQuery} \cup
  UNION {{Join(ws) : ws \in [1..n -> Words]} : n \in 1..MaxWords}

\* the entries of the corpus a query returns, by position
Matching(f) == {i \in DOMAIN Corpus : MatchEntry(f, Corpus[i])}

\* query.Parse on the query string at hand, then Query.Match on every entry
ParseAndMatch ==
  /\ last.op = "Query"
  /\ LET f == ParseBytes(last.query)
     IN last' = [op |-> "Parse", query |-> last.query, filter |-> f,
                 matched |-> IF f.k = "Error" THEN {} ELSE Matching(f)]
  /\ UNCHANGED <<storeVars, serverVars, taskVars, mainVars>>

\* a store that has just been opened and is used on its own
Opened ==
  /\ db = EmptyDB
  /\ writeCount = 0
  /\ cleanupChan = 0
  /\ mu = Unlocked
  /\ tasks = [t \in Tasks |-> Idle]
  /\ retentionSize = 0
  /\ retentionDays = 1
  /\ nextId = 1
  /\ StoreOnly

\* a caller is about to parse one of the query strings
ParseInit ==
  /\ Opened
  /\ \E q \in ParseInputs : last = [op |-> "Query", query |-> q]

ParseNext == ParseAndMatch

ParseSpec == ParseInit /\ [][ParseNext]_vars

(***************************************************************************)
(* The level of a parsed line (pkg/parser/parser.go).  A line is taken as  *)
(* the key-value object it decodes to; only the keys level and severity    *)
(* matter here, and their values are strings.                              *)
(***************************************************************************)
\* strings.ToUpper on ASCII
ToUpper(s) == [i \in 1..Len(s) |-> IF s[i] \in 97..122 THEN s[i] - 32 ELSE s[i]]

lvERROR == <<69, 82, 82, 79, 82>>
lvWARN == <<87, 65, 82, 78>>
lvINFO == <<73, 78, 70, 79>>
lvDEBUG == <<68, 69, 66, 85, 71>>
lvTRACE == <<84, 82, 65, 67, 69>>
lvFATAL == <<70, 65, 84, 65, 76>>

NormalizeLevel(level) ==
  LET l == ToUpper(TrimSpace(level))
  IN CASE l \in {lvERROR, <<69, 82, 82>>}               -> lvERROR
       [] l \in {lvWARN, <<87, 65, 82, 78, 73, 78, 71>>}            -> lvWARN
       [] l \in {lvINFO, <<73, 78, 70, 79, 82, 77, 65, 84, 73, 79, 78>>}        -> lvINFO
       [] l \in {lvDEBUG, <<68, 66, 71>>}               -> lvDEBUG
       [] l \in {lvTRACE, <<84, 82, 67>>}               -> lvTRACE
       [] l \in {lvFATAL, <<67, 82, 73, 84, 73, 67, 65, 76>>, <<67, 82, 73, 84>>} -> lvFATAL
       [] OTHER                                  -> l

\* the level JSONParser.Parse gives the entry
JSONLevel(obj) ==
  IF "level" \in DOMAIN obj THEN ToUpper(obj["level"])
  ELSE IF "severity" \in DOMAIN obj THEN ToUpper(obj["severity"])
  ELSE lvINFO

\* the level LogfmtParser.Parse gives the entry
LogfmtLevel(fields) ==
  IF "level" \in DOMAIN fields THEN NormalizeLevel(fields["level"])
  ELSE lvINFO

\* raw level values as they appear in log lines
RawLevels ==
  {<<101, 114, 114, 111, 114>>, <<101, 114, 114>>, <<119, 97, 114, 110>>, <<119, 97, 114, 110, 105, 110, 103>>, <<87, 65, 82, 78, 73, 78, 71>>, <<105, 110, 102, 111>>,
   <<100, 98, 103>>, <<99, 114, 105, 116>>, <<99, 114, 105, 116, 105, 99, 97, 108>>, <<110, 111, 116, 105, 99, 101>>}

\* the objects a line decodes to: any of the two keys, each with a raw level
RawObjects ==
  UNION {[keys -> RawLevels] : keys \in SUBSET {"level", "severity"}}

\* the same key-value pairs arrive as a JSON line and as a logfmt line, and
\* each parser makes its entry
ParseLevel ==
  /\ last.op = "Object"
  /\ last' = [op |-> "ParseLevel", obj |-> last.obj,
              json |-> JSONLevel(last.obj), logfmt |-> LogfmtLevel(last.obj)]
  /\ UNCHANGED <<storeVars, serverVars, taskVars, mainVars>>

LevelInit ==
  /\ Opened
  /\ \E obj \in RawObjects : last = [op |-> "Object", obj |-> obj]

LevelNext == ParseLevel

LevelSpec == LevelInit /\ [][LevelNext]_vars

(***************************************************************************)
(* The time-range query.                                                   *)
(***************************************************************************)
\* C26: a query with a time range returns the page and the total of the full
\* forward scan filtered by the request's filter and start <= ts <= end
C26_TimeRangeEqualsFilteredScan ==
  (last.op = "handleQuery" /\ last.status = 200 /\ last.tr # NilRange) =>
    last.res =
      Query(db, AndFilter(last.filter, TimestampRangeFilter(last.tr.start, last.tr.end)),
            last.limit, last.offset)

C22_RangeQueryInclusive ==
  (last.op = "Parse" /\ last.query = RangeQuery) =>
    /\ last.filter.k # "Error"
    /\ last.matched =
         {i \in DOMAIN Corpus :
            /\ fieldStatus \in DOMAIN Corpus[i].fields
            /\ Corpus[i].fields[fieldStatus].v \in 200..299}
    /\ Cardinality(last.matched) = 3

QuotedQuery == Join(<<wQuotedOpen, wQuotedClose>>)

\* C23: message:"connection refused" compiles to one exact filter on message
\* with the value 'connection refused' and matches exactly the one entry
\* with that message
C23_QuotedValueIsOneExactTerm ==
  (last.op = "Parse" /\ last.query = QuotedQuery) =>
    /\ last.filter = FieldFilterOn(fieldMessage, msgConnectionRefused, TRUE)
    /\ last.matched = {i \in DOMAIN Corpus : Corpus[i].message = msgConnectionRefused}
    /\ Cardinality(last.matched) = 1

\* every parenthesis has its partner
RECURSIVE Balanced(_, _)
Balanced(s, depth) ==
  IF s = <<>> THEN depth = 0
  ELSE IF Head(s) = lparen THEN Balanced(Tail(s), depth + 1)
  ELSE IF Head(s) = rparen THEN depth > 0 /\ Balanced(Tail(s), depth - 1)
  ELSE Balanced(Tail(s), depth)

ColonStartsTerm(s) ==
  \E i \in 1..Len(s) : s[i] = colon /\ (i = 1 \/ s[i - 1] \in {space, lparen})

Malformed(s) ==
  \/ ~Balanced(s, 0)
  \/ ColonStartsTerm(s)
  \/ Contains(s, <<lparen, rparen>>)

\* C24: a query with an unmatched parenthesis, a term that starts with ':'
\* or an empty group () is answered with an error, never with a filter
C24_MalformedQueryIsAnError ==
  (last.op = "Parse" /\ Malformed(last.query)) => last.filter.k = "Error"

\* C25: a word that only begins with OR, AND or NOT and follows a term is
\* one keyword term, joined to the term before it by the implicit AND
C25_OperatorsAreWholeWords ==
  \A t \in Terms, w \in OperatorLike :
    (last.op = "Parse" /\ last.query = Join(<<t, w>>)) =>
      last.filter = AndFilter(ParseBytes(t), KeywordFilter(w))

(***************************************************************************)
(* The level of a parsed line.                                             *)
(***************************************************************************)
\* the first of level and severity that the object carries
FirstLevel(obj) ==
  IF "level" \in DOMAIN obj THEN obj["level"] ELSE obj["severity"]

\* C28: for an object that carries level or severity, the JSON parser and
\* the logfmt parser both give the entry the normalized first of the two
C28_SameLevelInBothFormats ==
  (last.op = "ParseLevel" /\ DOMAIN last.obj # {}) =>
    /\ last.json = NormalizeLevel(FirstLevel(last.obj))
    /\ last.logfmt = NormalizeLevel(FirstLevel(last.obj))

(***************************************************************************)
(* Statistics.                                                             *)
(***************************************************************************)
\* the count GetStats reports for a level: a level it does not list has 0
LevelCount(stats, l) == IF l \in DOMAIN stats.levels THEN stats.levels[l] ELSE 0

\* C27: GetStats reports the number of primary records as totalLogs and, for
\* every level, the number of primary records of that level
C27_StatsCountPrimaryRecords ==
  last.op = "GetStats" =>
    /\ last.stats.totalLogs = Cardinality(LogKeys(db))
    /\ \A level \in JSONLevels :
         LevelCount(last.stats, LevelBytes(level)) =
           Cardinality({k \in LogKeys(db) : db[k].level = level})

(***************************************************************************)
(* Field summary.                                                          *)
(***************************************************************************)
\* the levels of the entries in the order they are first seen
RECURSIVE FirstSeen(_, _)
FirstSeen(es, seen) ==
  IF es = <<>> THEN seen
  ELSE FirstSeen(Tail(es),
                 IF \E i \in DOMAIN seen : seen[i] = Head(es).level
                 THEN seen ELSE Append(seen, Head(es).level))

\* C29: the top values of a field are its most frequent values, at most
\* MaxTopValues of them, by non-increasing count, values of equal count in
\* the order they were first observed
C29_TopValuesByCountThenFirstSeen ==
  last.op = "GetFields" =>
    LET es == FieldEntries(db, last.tr.start, last.tr.end)
    IN last.fields.level = topN(LevelCounts(es), MaxTopValues, FirstSeen(es, <<>>))

(***************************************************************************)
(* Publication after the write.                                            *)
(***************************************************************************)
\* C30: a step that publishes a record starts from a state in which that
\* record is committed in the store, and a step that skips a line (its parse
\* or its Store failed) publishes nothing and enqueues nothing
C30_PublishedOnlyAfterStore ==
  [][/\ published' # published =>
         /\ PrimaryKey(last'.entry) \in DOMAIN db
         /\ db[PrimaryKey(last'.entry)] = last'.entry
     /\ last'.op = "Line" => (published' = published /\ send' = send)]_vars

\* a line was skipped, and a later record has been stored, published and
\* put on a client's queue
C30_Witness ==
  /\ badLines > 0
  /\ last.op = "BroadcastLog"
  /\ PrimaryKey(last.entry) \in DOMAIN db
  /\ \E c \in clients : send[c] = Append(last.pre[c], LogItem(last.entry, published))


(***************************************************************************)
(* Live delivery and subscriptions.                                        *)
(***************************************************************************)
\* C31: a record is put on a client's queue as a live log only when the
\* client has a subscription and that subscription's filter matches the
\* record; a client that has not subscribed, or has unsubscribed, gets none
C31_LiveOnlyForSubscription ==
  last.op = "BroadcastLog" =>
    \A c \in ClientIds :
      send[c] # last.pre[c] =>
        /\ subscription[c] > 0
        /\ filter[c] # NilFilter
        /\ Match(filter[c], last.entry)

\* a connection whose subscription to every record is established: it was
\* accepted, sent subscribe with the query * and no time range, and the
\* results message of the then empty store has been written to it
Subscribed ==
  /\ clients = ClientIds
  /\ conns = ClientIds
  /\ filter = [c \in ClientIds |->
                 RequestFilter(AllFilter, DefaultFilter(startTime), NilRange)]
  /\ timeRange = [c \in ClientIds |-> NilRange]
  /\ send = [c \in ClientIds |-> <<>>]
  /\ done = [c \in ClientIds |-> FALSE]
  /\ readPumps = [c \in ClientIds |-> "run"]
  /\ writePumps = [c \in ClientIds |-> "run"]
  /\ initial = {}
  /\ entry = NoEntry
  /\ tickNow = 0
  /\ entries = <<>>
  /\ published = 0
  /\ subscribed = [c \in ClientIds |-> 1]
  /\ subscription = [c \in ClientIds |-> 1]
  /\ resultsQueued = [c \in ClientIds |-> {1}]
  /\ delivered = [c \in ClientIds |-> 0]
  /\ room = [c \in ClientIds |-> 0]
  /\ roomAll = [c \in ClientIds |-> 1]

\* the specification of live delivery in collect mode: runCollectMode has
\* started the broadcast worker and the server, a client has subscribed, and
\* the ingest loop and the worker both run
LiveInit ==
  /\ StoreInit
  /\ retentionSize = 0
  /\ now = MinTime + 1
  /\ startTime \in {0, now}
  /\ Subscribed
  /\ pc = "read"
  /\ worker = "wait"
  /\ lastCheck = now
  /\ listening = TRUE
  /\ closed = FALSE
  /\ badLines = 0
  /\ smu = Unlocked

LiveNext ==
  \/ IngestStore
  \/ IngestBroadcast
  \/ WorkerScan
  \/ WorkerBroadcast
  \/ WorkerDone
  \/ \E c \in ClientIds : writePump(c)
  \/ Tick

LiveSpec == LiveInit /\ [][LiveNext]_vars

\* C32: no record is put twice on a subscriber's queue as a live log: the
\* live logs waiting on a queue are records with different ids
C32_LiveLogAtMostOnce ==
  \A c \in ClientIds :
    LET logs == LogItems(send[c])
    IN \A i, j \in 1..Len(logs) :
         logs[i].entry.id = logs[j].entry.id => i = j

\* C33: when sendInitialResults runs its query for a subscribe message, the
\* time range it queries with is the one that message carried, as the filter
\* is, whatever other subscribe the client has sent in between
C33_SnapshotOfOwnSubscribe ==
  [][\A g \in initial :
       (g.stage = "query" /\ g \notin initial') => timeRange[g.c] = g.tr]_vars

(***************************************************************************)
(* The server under its mutex.  BroadcastLog is cut at RLock, the accept   *)
(* of a connection takes the lock, and readPump's handling of a subscribe  *)
(* message is cut before its assignments to c.filter and c.timeRange.      *)
(***************************************************************************)
\* BroadcastLog: s.mu.RLock()
BroadcastLogRLock ==
  /\ pc = "publish"
  /\ smu = Unlocked
  /\ smu' = "r"
  /\ pc' = "locked"
  /\ last' = Step
  /\ UNCHANGED <<storeVars, taskVars, listening, closed, badLines>>
  /\ UNCHANGED <<startTime, clientVars, entry, workerVars, historyVars>>

\* BroadcastLog's loop when its read of c.filter runs next to readPump's
\* write of it: for the clients in the middle of that write the read yields
\* the old value, the new one or a mix of the two words of the interface,
\* so whether the entry is selected for them is open (torn: those for which
\* it is)
BroadcastLogTorn(e, torn) ==
  LET to == {c \in clients : IF readPumps[c] = "write" THEN c \in torn
                             ELSE Selects(filter[c], e)}
  IN /\ send' = [c \in ClientIds |->
                   IF c \in to THEN Offer(send[c], LogItem(e, published + 1))
                   ELSE send[c]]
     /\ published' = published + 1
     /\ room' = [c \in ClientIds |->
                   IF c \in to /\ room[c] > 0 THEN room[c] - 1 ELSE room[c]]
     /\ roomAll' = [c \in ClientIds |->
                      IF c \in to /\ roomAll[c] > 0 THEN roomAll[c] - 1 ELSE roomAll[c]]
     /\ last' = [op |-> "BroadcastLog", entry |-> e, pre |-> send,
                 room |-> room, roomAll |-> roomAll,
                 writing |-> {c \in clients : readPumps[c] = "write"}]

\* BroadcastLog: the loop over s.clients and the deferred s.mu.RUnlock()
BroadcastLogLoop ==
  /\ pc = "locked"
  /\ \E torn \in SUBSET {c \in clients : readPumps[c] = "write"} :
       BroadcastLogTorn(entry, torn)
  /\ smu' = Unlocked
  /\ entry' = NoEntry
  /\ pc' = "read"
  /\ UNCHANGED <<storeVars, taskVars, listening, closed, badLines>>
  /\ UNCHANGED <<startTime, clients, conns, filter, timeRange, done, readPumps,
                 writePumps, initial, workerVars, subscribed, subscription,
                 resultsQueued, delivered>>

\* handleWebSocket, whose s.mu.Lock() waits for BroadcastLog's RUnlock
handleWebSocketLock ==
  /\ smu = Unlocked
  /\ handleWebSocket

\* readPump reads a subscribe message whose query parses and builds the
\* filter; it takes no lock
readPumpSubscribe(c) ==
  /\ readPumps[c] = "run"
  /\ Subscriptions < MaxSubs
  /\ readPumps' = [readPumps EXCEPT ![c] = "write"]
  /\ last' = Step
  /\ UNCHANGED <<storeVars, taskVars, mainVars>>
  /\ UNCHANGED <<startTime, clients, conns, filter, timeRange, send, done,
                 writePumps, initial, ingestVars, workerVars, historyVars>>

\* readPump has assigned c.filter and c.timeRange and starts
\* sendInitialResults
readPumpAssign(c) ==
  \E queryStr \in QueryStrings, tr \in RangeInputs :
    LET q == Parse(queryStr)
        f == RequestFilter(q, DefaultFilter(startTime), tr)
        n == subscribed[c] + 1
    IN /\ readPumps[c] = "write"
       /\ q # ParseError
       /\ filter' = [filter EXCEPT ![c] = f]
       /\ timeRange' = [timeRange EXCEPT ![c] = tr]
       /\ initial' = initial \cup
            {[c |-> c, q |-> f, tr |-> tr, sub |-> n, stage |-> "query",
              msg |-> <<>>]}
       /\ subscribed' = [subscribed EXCEPT ![c] = n]
       /\ subscription' = [subscription EXCEPT ![c] = n]
       /\ readPumps' = [readPumps EXCEPT ![c] = "run"]
       /\ last' = Step
       /\ UNCHANGED <<storeVars, taskVars, mainVars>>
       /\ UNCHANGED <<startTime, clients, conns, send, done, writePumps,
                      ingestVars, workerVars, published, resultsQueued,
                      delivered, room, roomAll>>

\* the specification of the server's mutex: the ingest loop publishes under
\* the read lock while connections are accepted and subscribe
RaceNext ==
  \/ IngestStore
  \/ BroadcastLogRLock
  \/ BroadcastLogLoop
  \/ handleWebSocketLock
  \/ \E c \in ClientIds : readPumpSubscribe(c)
  \/ \E c \in ClientIds : readPumpAssign(c)
  \/ \E g \in initial : InitialQuery(g)
  \/ \E g \in initial : InitialSend(g)
  \/ \E c \in ClientIds : writePump(c)

RaceSpec == AllInit /\ [][RaceNext]_vars

\* C34: the subscriber state BroadcastLog reads is written only under the
\* server mutex: while BroadcastLog holds the read lock, no read pump of a
\* registered client is in the middle of writing its filter and time range
C34_FilterWrittenUnderMutex ==
  smu = "r" => \A c \in clients : readPumps[c] # "write"

(***************************************************************************)
(* Writers of a connection.                                                *)
(***************************************************************************)
\* writePump's ticker fires: a ping is written to the connection; writePump
\* returns when the write fails
writePumpPing(c) ==
  /\ writePumps[c] = "run"
  /\ \E ok \in BOOLEAN :
       writePumps' = [writePumps EXCEPT ![c] = IF ok THEN "run" ELSE "exit"]
  /\ last' = [op |-> "Ping", c |-> c]
  /\ UNCHANGED <<storeVars, taskVars, mainVars>>
  /\ UNCHANGED <<startTime, clients, conns, filter, timeRange, send, done,
                 readPumps, initial, ingestVars, workerVars, historyVars>>

\* the specification of a connection's outbound side: the ingest loop
\* publishes, the client subscribes and goes away, sendInitialResults and
\* writePump run
ConnNext ==
  \/ IngestStore
  \/ IngestBroadcast
  \/ handleWebSocket
  \/ \E c \in ClientIds : Subscribe(c)
  \/ \E c \in ClientIds : Disconnect(c)
  \/ \E g \in initial : InitialQuery(g)
  \/ \E g \in initial : InitialSend(g)
  \/ \E g \in initial : InitialAbort(g)
  \/ \E c \in ClientIds : writePump(c)
  \/ \E c \in ClientIds : writePumpPing(c)
  \/ \E c \in ClientIds : writePumpDone(c)

ConnSpec == AllInit /\ [][ConnNext]_vars

\* C35: what reaches a client's connection is written by its writePump:
\* an item leaves the client's queue only from the head and only while its
\* writePump runs, a record counts as written only in such a step, a ping
\* is written only by a running writePump, and a sendInitialResults that
\* ends has put its results message at the tail of the queue and written
\* nothing, or has given up because the client is done
C35_OnlyWritePumpWrites ==
  [][\A c \in ClientIds :
       /\ \/ send'[c] = send[c]
          \/ \E item \in {LogItem(entry, published + 1)}
                          \cup {g.msg : g \in {h \in initial : h.c = c}} :
               send'[c] = Append(send[c], item)
          \/ /\ send[c] # <<>>
             /\ send'[c] = Tail(send[c])
             /\ writePumps[c] = "run"
       /\ delivered'[c] # delivered[c] =>
            /\ writePumps[c] = "run"
            /\ send[c] # <<>>
            /\ Head(send[c]) = LogItem(Head(send[c]).entry, delivered'[c])
            /\ send'[c] = Tail(send[c])
       /\ (last'.op = "Ping" /\ last'.c = c) => writePumps[c] = "run"
       /\ \A g \in initial :
            (g.c = c /\ g.stage = "send" /\ g \notin initial') =>
              /\ delivered'[c] = delivered[c]
              /\ \/ send'[c] = Append(send[c], g.msg)
                 \/ done[c] /\ send'[c] = send[c]]_vars

\* a results message went through the queue and a record was written after
\* it, and a later sendInitialResults of the same client has given up
C35_Witness ==
  \E c \in ClientIds :
    /\ delivered[c] > 0
    /\ 1 \in resultsQueued[c]
    /\ subscribed[c] = 2
    /\ 2 \notin resultsQueued[c]
    /\ done[c]
    /\ initial = {}

(***************************************************************************)
(* Closing the store.                                                      *)
(***************************************************************************)
\* BadgerStorage.Close: doneChan is closed and the database is closed; the
\* call takes no lock and waits for nobody.  Its caller has no Store in
\* flight and calls none afterwards.
StorageClose ==
  /\ ~closed
  /\ closed' = TRUE
  /\ last' = Step
  /\ UNCHANGED <<storeVars, serverVars, taskVars, listening, badLines, smu>>

\* cleanupWorker's select takes the doneChan case and the worker returns
WorkerReturn ==
  /\ tasks["cleanup"].pc = "idle"
  /\ closed
  /\ tasks' = [tasks EXCEPT !["cleanup"] = [pc |-> "exit"]]
  /\ last' = Step
  /\ UNCHANGED <<storeVars, serverVars, mu, mainVars>>

\* the specification of the store's shutdown: records are stored, the
\* cleanup worker serves its requests, and the store is closed
CloseNext ==
  \/ (~closed /\ Store)
  \/ WorkerReceive
  \/ SweepCollect
  \/ DeleteUpdate("cleanup")
  \/ StorageClose
  \/ WorkerReturn

\* the cleanup worker is a goroutine of its own and is scheduled as long as
\* it can take a step
CloseFair ==
  WF_vars(WorkerReceive \/ SweepCollect \/ DeleteUpdate("cleanup") \/ WorkerReturn)

CloseSpec == Init /\ [][CloseNext]_vars /\ CloseFair

\* after Close the cleanup worker eventually returns
WorkerReturnsAfterClose == closed ~> (tasks["cleanup"].pc = "exit")

\* C36: once the database has been closed the cleanup worker is not in a
\* retention sweep, neither one that was running when Close was called nor
\* one it starts afterwards, and the worker eventually returns
C36_NoSweepOnClosedStore ==
  /\ [](closed => tasks["cleanup"].pc \notin {"enforce", "delete"})
  /\ WorkerReturnsAfterClose

(***************************************************************************)
(* Cleanup requests.                                                       *)
(***************************************************************************)
\* Store: serializing the entry or the write transaction fails; Store
\* returns the error before it reaches the cleanup request
StoreUpdateFails(t) ==
  /\ tasks[t].pc = "update"
  /\ tasks' = [tasks EXCEPT ![t] = Idle]
  /\ last' = [op |-> "StoreFails", task |-> t]
  /\ UNCHANGED <<db, writeCount, cleanupChan, retentionSize, retentionDays, now, nextId, mu>>
  /\ UNCHANGED <<serverVars, mainVars>>

\* the specification of the cleanup requests: concurrent callers of Store,
\* whose writes commit or fail, and the cleanup worker
RequestNext ==
  \/ \E t \in Writers : StoreCount(t)
  \/ \E t \in Writers : StoreUpdate(t)
  \/ \E t \in Writers : StoreUpdateFails(t)
  \/ \E t \in Writers : StoreTrigger(t)
  \/ WorkerReceive
  \/ SweepCollect
  \/ DeleteUpdate("cleanup")

\* the cleanup worker is a goroutine of its own and is scheduled as long as
\* it can take a step
RequestFair == WF_vars(WorkerReceive \/ SweepCollect \/ DeleteUpdate("cleanup"))

RequestSpec == Init /\ [][RequestNext]_vars /\ RequestFair

DeleteStages == {"view", "update"}

\* DeleteAll returns an error: 0 when the View failed, the number of log
\* keys collected when the Update failed
DeleteAllFails ==
  \E stage \in DeleteStages :
    /\ last' = [op |-> "DeleteError", call |-> "DeleteAll", stage |-> stage, pre |-> db,
                count |-> IF stage = "view" THEN 0 ELSE Cardinality(LogKeys(db))]
    /\ UNCHANGED <<storeVars, serverVars, taskVars, mainVars>>

DeleteByLevelFails ==
  \E stage \in DeleteStages, level \in Levels :
    /\ last' = [op |-> "DeleteError", call |-> "DeleteByLevel", stage |-> stage, pre |-> db,
                count |-> IF stage = "view" THEN 0
                          ELSE Cardinality({k \in LogKeys(db) : db[k].level = level})]
    /\ UNCHANGED <<storeVars, serverVars, taskVars, mainVars>>

DeleteOlderThanFails ==
  \E stage \in DeleteStages, cutoff \in TimeSet :
    /\ last' = [op |-> "DeleteError", call |-> "DeleteOlderThan", stage |-> stage, pre |-> db,
                count |-> IF stage = "view" THEN 0
                          ELSE Cardinality(OlderKeys(db, cutoff))]
    /\ UNCHANGED <<storeVars, serverVars, taskVars, mainVars>>

\* the specification of the deletions: records are stored and deleted, and
\* a deletion succeeds or returns an error
DeleteNext ==
  \/ Store
  \/ DeleteAll
  \/ DeleteByLevel
  \/ DeleteOlderThan
  \/ DeleteAllFails
  \/ DeleteByLevelFails
  \/ DeleteOlderThanFails

DeleteSpec == Init /\ [][DeleteNext]_vars

\* C38: a deletion returns the number of primary records it removed, and a
\* deletion that returns an error has removed nothing and returns 0
C38_CountIsWhatWasRemoved ==
  /\ last.op \in {"DeleteAll", "DeleteByLevel", "DeleteOlderThan"} =>
       last.count = Cardinality(LogKeys(last.pre) \ LogKeys(db))
  /\ last.op = "DeleteError" =>
       /\ db = last.pre
       /\ last.count = 0


(***************************************************************************)
(* The oldest and the newest record: GetOldestNewest, as `peek db stats`   *)
(* calls it.                                                               *)
(***************************************************************************)

\* it.Seek(key) of a forward iterator: the first key of the store that is
\* not before key in byte order, <<>> when there is none
SeekForward(d, key) ==
  LET K == {k \in DOMAIN d : ~BytesLess(k, key)}
  IN IF K = {} THEN <<>>
     ELSE CHOOSE k \in K : \A o \in K \ {k} : BytesLess(k, o)

\* it2.Seek(key) of an iterator with opts.Reverse: the last key of the
\* store that is not after key in byte order, <<>> when there is none
SeekReverse(d, key) ==
  LET K == {k \in DOMAIN d : ~BytesLess(key, k)}
  IN IF K = {} THEN <<>>
     ELSE CHOOSE k \in K : \A o \in K \ {k} : BytesLess(o, k)

\* it.ValidForPrefix(prefix): the iterator stands on a key with the prefix
ValidForPrefix(k, prefix) == k # <<>> /\ HasPrefix(k, prefix)

\* GetOldestNewest(), in one read transaction: oldest is the timestamp in
\* the value of the first key under log:, newest the timestamp in the value
\* of the last key under log: (the reverse iterator is placed at log:
\* followed by the byte 0xFF); a timestamp that is not assigned stays the
\* zero time, written 0.  The values are the JSON Store wrote, so FromJSON
\* does not fail.
GetOldestNewest(d) ==
  LET first == SeekForward(d, logPrefix)
      final == SeekReverse(d, logPrefix \o <<255>>)
  IN [oldest |-> IF ValidForPrefix(first, logPrefix) THEN d[first].ts ELSE 0,
      newest |-> IF ValidForPrefix(final, logPrefix) THEN d[final].ts ELSE 0]

GetOldestNewestCall ==
  /\ last' = [op |-> "GetOldestNewest", oldest |-> GetOldestNewest(db).oldest,
              newest |-> GetOldestNewest(db).newest]
  /\ UNCHANGED <<storeVars, serverVars, taskVars, mainVars>>

\* the specification of the oldest and the newest record: records are
\* stored and deleted, and GetOldestNewest is called in between
OldestNext ==
  \/ Store
  \/ DeleteOlderThan
  \/ DeleteAll
  \/ GetOldestNewestCall

OldestSpec == Init /\ [][OldestNext]_vars

\* C39: GetOldestNewest returns the minimum and the maximum timestamp over
\* all stored records (oldest <= every stored timestamp <= newest, and both
\* are timestamps of stored records), and the zero time for both when the
\* store is empty.
C39_OldestNewestAreMinMax ==
  last.op = "GetOldestNewest" =>
    IF LogKeys(db) = {}
    THEN last.oldest = 0 /\ last.newest = 0
    ELSE /\ \A k \in LogKeys(db) :
              last.oldest <= db[k].ts /\ db[k].ts <= last.newest
         /\ \E k \in LogKeys(db) : db[k].ts = last.oldest
         /\ \E k \in LogKeys(db) : db[k].ts = last.newest
====
